---- MODULE Spec2Model ----
\* Verification model of the adaptive ensemble forecasting engine
\* (src/predictionLogic.js) and of the learning state it keeps between
\* prediction cycles.
\*
\* Real-valued quantities of the source are held as integers in fixed units
\* (Unit = 1/10000 for weights, factors and confidences; Fine = 1/90000 for the
\* drift detector's error-rate statistics).  Every conversion is written where
\* it is used.
EXTENDS Integers, Sequences, FiniteSets, TLC

VARIABLES
    consecutiveHighConfLosses,  \* predictionLogic.js:1811
    reflexiveCorrectionActive,  \* predictionLogic.js:1812 (a countdown)
    driftDetector,              \* predictionLogic.js:1308
    call,                       \* the latest call: its arguments, pre-state and return value
    prevCall,                   \* the call before the latest one
    runLen,                     \* length of the current run of consecutive calls of interest
    doneLen,                    \* length of the most recent completed run (0: none yet)
    stream,                     \* the calls made so far, oldest first (bounded runs only)
    signalPerformance,          \* predictionLogic.js:1293 (source name -> record)
    clock,                      \* the latest period id any caller has used
    outcomes,                   \* the learning run so far: <<first outcome, latest outcome, changes>>
    freeCalls,                  \* calls made with unrestricted arguments
    lowAccuracy,                \* sources whose latest accuracy computation fell below the
                                \* probation threshold and whose weight has not been read since
    scoredPeriods,              \* the <<source, period id>> pairs updateSignalPerformance
                                \* has been called with (an outcome given)
    result,                     \* what the latest call of ultraAIPredict returned (or that it threw)
    cycles,                     \* calls of ultraAIPredict made so far
    sharedHistory,              \* server.js:17 (the history array, newest record first)
    REGIME_SIGNAL_PROFILES,     \* predictionLogic.js:1487 (profile name -> profile)
    GLOBAL_LONG_TERM_ACCURACY_FOR_LEARNING_RATE,  \* predictionLogic.js:1504
    sharedStats,                \* unnamed/part_000:159 (the state carried between requests)
    api                         \* the results API: the newest period and its number

reflexVars == <<consecutiveHighConfLosses, reflexiveCorrectionActive, runLen, doneLen>>
driftVars == <<driftDetector, stream>>
perfVars == <<signalPerformance, clock, outcomes, freeCalls, lowAccuracy, scoredPeriods>>

cycleVars == <<result, cycles, sharedHistory>>
regimeVars == <<REGIME_SIGNAL_PROFILES, GLOBAL_LONG_TERM_ACCURACY_FOR_LEARNING_RATE>>

serverVars == <<sharedStats, api>>

vars == <<reflexVars, driftVars, perfVars, cycleVars, regimeVars, serverVars, call, prevCall>>

----------------------------------------------------------------------------
\* Values shared by all parts

NULL == "null"

NoCall == [op |-> "none"]

\* parseInt of the strings the callers put in `actual`; anything else is NaN.
NaN == 0 - 1

DigitValue ==
    [s \in {"0", "1", "2", "3", "4", "5", "6", "7", "8", "9"} |->
        CASE s = "0" -> 0 [] s = "1" -> 1 [] s = "2" -> 2 [] s = "3" -> 3
          [] s = "4" -> 4 [] s = "5" -> 5 [] s = "6" -> 6 [] s = "7" -> 7
          [] s = "8" -> 8 [] s = "9" -> 9]

parseInt(s) == IF s \in DOMAIN DigitValue THEN DigitValue[s] ELSE NaN

getBigSmallFromNumber(number) ==
    IF number = NULL THEN NULL
    ELSE LET num == parseInt(number) IN
         IF num = NaN THEN NULL
         ELSE IF num >= 0 /\ num <= 4 THEN "SMALL"
         ELSE IF num >= 5 /\ num <= 9 THEN "BIG"
         ELSE NULL

Max(a, b) == IF a >= b THEN a ELSE b
Min(a, b) == IF a <= b THEN a ELSE b

----------------------------------------------------------------------------
\* Concept drift detection (DDM): detectConceptDrift

\* The unit of p_min, s_min and of every p_i + s_i comparison: 1/90000.
\* (Fine / 2)^2 still fits TLC's integers.
Fine == 90 * 1000

\* Infinity of the source (line 1308); it is only ever compared, never added.
Infinity == 2147483647

RECURSIVE GCD(_, _)
GCD(a, b) == IF b = 0 THEN a ELSE GCD(b, a % b)

\* floor(sqrt(x)) by bisection on [lo, hi], with lo * lo <= x < (hi + 1)^2.
RECURSIVE SqrtBetween(_, _, _)
SqrtBetween(x, lo, hi) ==
    IF lo >= hi THEN lo
    ELSE LET mid == (lo + hi + 1) \div 2 IN
         IF mid * mid <= x THEN SqrtBetween(x, mid, hi)
         ELSE SqrtBetween(x, lo, mid - 1)

ISqrt(x) == SqrtBetween(x, 0, Fine)

\* Line 1308.  p_i is not a field of the initial object; it is first read when
\* n > 1, that is after a call has written it, so its initial value is never used.
\* p_i is kept exactly, as the fraction <<numerator, denominator>>.
InitialDriftDetector ==
    [p_min |-> Infinity, s_min |-> Infinity, n |-> 0, p_i |-> <<0, 1>>,
     warning_level |-> 2, drift_level |-> 3]

\* Line 1464: p_i = prev + (errorRate - prev) / n, where prev is the stored p_i
\* when n > 1 and 0 otherwise; the result in lowest terms.
RunningErrorRate(dd, n, errorRate) ==
    LET num == IF n > 1 THEN (n - 1) * dd.p_i[1] + errorRate * dd.p_i[2] ELSE errorRate
        den == IF n > 1 THEN n * dd.p_i[2] ELSE 1
        g == GCD(num, den)
    IN <<num \div g, den \div g>>

\* A mutant of lines 1475-1477: the reset forgets to restart the sample count at 1.
ResetDetectorKeepCount(dd) ==
    [dd EXCEPT !.p_min = Infinity, !.s_min = Infinity]

\* Lines 1475-1477: the reset on drift.
ResetDetector(dd) ==
    [dd EXCEPT !.p_min = Infinity, !.s_min = Infinity, !.n = 1]

\* detectConceptDrift as a function of the detector state and the correctness
\* bit: the new detector state and the returned drift state.
detectConceptDrift(dd0, isCorrect) ==
    LET n == dd0.n + 1
        errorRate == IF isCorrect THEN 0 ELSE 1
        pi == RunningErrorRate(dd0, n, errorRate)
        p == (pi[1] * Fine) \div pi[2]
        s == ISqrt((p * (Fine - p)) \div n)
        dd1 == [dd0 EXCEPT !.n = n, !.p_i = pi]
        \* line 1468: p_i + s_i < p_min + s_min (anything finite is below Infinity)
        lower == dd1.p_min = Infinity \/ p + s < dd1.p_min + dd1.s_min
        dd2 == IF lower THEN [dd1 EXCEPT !.p_min = p, !.s_min = s] ELSE dd1
    IN  IF p + s > dd2.p_min + dd2.drift_level * dd2.s_min
        THEN [dd |-> ResetDetector(dd2), ret |-> "DRIFT"]
        ELSE IF p + s > dd2.p_min + dd2.warning_level * dd2.s_min
        THEN [dd |-> dd2, ret |-> "WARNING"]
        ELSE [dd |-> dd2, ret |-> "STABLE"]

\* The longest stream of correctness bits fed to the detector.
MaxStream == 12

\* One call of detectConceptDrift with the correctness bit of a scored prediction.
FeedDrift(isCorrect) ==
    /\ Len(stream) < MaxStream
    /\ LET r == detectConceptDrift(driftDetector, isCorrect) IN
       /\ driftDetector' = r.dd
       /\ call' = [op |-> "detectConceptDrift", isCorrect |-> isCorrect, ret |-> r.ret]
       /\ prevCall' = call
       /\ stream' = Append(stream, [isCorrect |-> isCorrect, ret |-> r.ret])
    /\ UNCHANGED <<reflexVars, perfVars, cycleVars, regimeVars, serverVars>>

----------------------------------------------------------------------------
\* Reflexive correction: checkForAnomalousPerformance

\* The fields of currentSharedStats that checkForAnomalousPerformance reads.
\* lastFinalConfidence is a number or null (the servers' initial value);
\* only "is it a number" matters here, so a number is held as the string "number".
ReflexStats ==
    [lastFinalConfidence : {NULL, "number"},
     lastActualOutcome : {NULL, "2", "7"},
     lastPredictedOutcome : {NULL, "BIG", "SMALL"},
     lastConfidenceLevel : {1, 2, 3}]

\* The guard of line 1820: the carried state describes a scored prediction.
HasOutcome(stats) ==
    stats.lastFinalConfidence # NULL /\ stats.lastActualOutcome # NULL

lastPredWasCorrect(stats) ==
    getBigSmallFromNumber(stats.lastActualOutcome) = stats.lastPredictedOutcome

lastPredWasHighConf(stats) == stats.lastConfidenceLevel = 3

\* The counter after lines 1820-1831, a mutant that never resets it.
CountLossesNoReset(losses, stats) ==
    IF HasOutcome(stats) /\ lastPredWasHighConf(stats) /\ ~lastPredWasCorrect(stats)
    THEN losses + 1
    ELSE losses

\* The counter after lines 1820-1831.
CountLosses(losses, stats) ==
    IF HasOutcome(stats)
    THEN IF lastPredWasHighConf(stats) /\ ~lastPredWasCorrect(stats)
         THEN losses + 1
         ELSE 0
    ELSE losses

\* A mutant of the countdown branch: an active countdown is re-armed by a
\* further high-confidence miss.
CountdownRearm(active, stats) ==
    IF HasOutcome(stats) /\ lastPredWasHighConf(stats) /\ ~lastPredWasCorrect(stats)
    THEN 5
    ELSE active - 1

\* Line 1816: the countdown branch.
Countdown(active, stats) == active - 1

\* A mutant of the activation: the countdown starts one lower.
ArmShort == 5 - 1

\* Line 1834: the value the countdown is armed with.
Arm == 5

\* checkForAnomalousPerformance as a function of the two module-level counters
\* and the carried state: the new counters and the return value.
checkForAnomalousPerformance(losses, active, stats) ==
    IF active > 0
    THEN [losses |-> losses, active |-> Countdown(active, stats), ret |-> TRUE]
    ELSE LET l == CountLosses(losses, stats) IN
         IF l >= 2
         THEN [losses |-> 0, active |-> Arm, ret |-> TRUE]
         ELSE [losses |-> l, active |-> 0, ret |-> FALSE]

\* One cycle's call of checkForAnomalousPerformance (ultraAIPredict line 1945).
CheckAnomalous(stats) ==
    LET r == checkForAnomalousPerformance(consecutiveHighConfLosses,
                                           reflexiveCorrectionActive, stats) IN
    /\ consecutiveHighConfLosses' = r.losses
    /\ reflexiveCorrectionActive' = r.active
    /\ call' = [op |-> "checkForAnomalousPerformance", stats |-> stats,
                lossesBefore |-> consecutiveHighConfLosses,
                activeBefore |-> reflexiveCorrectionActive,
                ret |-> r.ret]
    /\ prevCall' = call
    /\ runLen' = IF r.ret THEN runLen + 1 ELSE 0
    /\ doneLen' = IF ~r.ret /\ runLen > 0 THEN runLen ELSE doneLen
    /\ UNCHANGED <<driftVars, perfVars, cycleVars, regimeVars, serverVars>>

ReflexCycle == \E stats \in ReflexStats : CheckAnomalous(stats)

----------------------------------------------------------------------------
\* Signal performance learning: updateSignalPerformance and
\* getDynamicWeightAdjustment (predictionLogic.js:1293-1453)

\* Factors, scores, confidences and base weights are integers in units of
\* 1/10000.  A weight returned by getDynamicWeightAdjustment is in units of
\* 1/10000 of that, so that the product baseWeight * factor is not rounded.
Unit == 10 * 1000

PERFORMANCE_WINDOW == 30
MIN_OBSERVATIONS_FOR_ADJUST == 10
MAX_WEIGHT_FACTOR == 19500
MIN_WEIGHT_FACTOR == 500
MAX_ALPHA_FACTOR == 16000
MIN_ALPHA_FACTOR == 4000
MIN_ABSOLUTE_WEIGHT == 3
INACTIVITY_PERIOD_FOR_DECAY == PERFORMANCE_WINDOW * 3
DECAY_RATE == 250
ALPHA_UPDATE_RATE == 400
PROBATION_THRESHOLD_ACCURACY == 4000
PROBATION_MIN_OBSERVATIONS == 15
PROBATION_WEIGHT_CAP == 1000

\* lastUpdatePeriod: null and lastActivePeriod: null of a new record.
NoPeriod == 0 - 1

NoBuckets == [l \in {} |-> [correct |-> 0, total |-> 0]]

\* The record both functions create for a source they have not seen.
NewRecord ==
    [correct |-> 0, total |-> 0, recentAccuracy |-> << >>,
     sessionCorrect |-> 0, sessionTotal |-> 0,
     lastUpdatePeriod |-> NoPeriod, lastActivePeriod |-> NoPeriod,
     currentAdjustmentFactor |-> Unit, alphaFactor |-> Unit,
     longTermImportanceScore |-> Unit \div 2,
     performanceByVolatility |-> NoBuckets, isOnProbation |-> FALSE]

Clamp(x, lo, hi) == Min(Max(x, lo), hi)

RECURSIVE Sum(_)
Sum(seq) == IF seq = << >> THEN 0 ELSE Head(seq) + Sum(Tail(seq))

\* marketEntropyState.includes("CHAOS")
IncludesChaos(state) ==
    state \in {"RISING_CHAOS", "STABLE_CHAOS", "SUBSIDING_CHAOS",
               "POTENTIAL_CHAOS_FROM_INSTABILITY"}

\* Lines 1407-1418: the change of longTermImportanceScore for one scored vote.
ImportanceDelta(outcomeCorrect, isHighConfidencePrediction, isOverallCorrect, amplified) ==
    LET base == IF outcomeCorrect = 1
                THEN (IF isHighConfidencePrediction THEN 250 ELSE 100)
                ELSE (IF isHighConfidencePrediction /\ ~isOverallCorrect
                      THEN 0 - 400 ELSE 0 - 150)
    IN  IF amplified THEN (base * 3) \div 2 ELSE base

\* A recent-accuracy window that is never trimmed.
KeepAll(window) == window

\* Lines 1421-1423: the window drops its oldest entry once it exceeds 30.
TrimWindow(window) ==
    IF Len(window) > PERFORMANCE_WINDOW THEN Tail(window) ELSE window

\* The factor with the deviation taken the other way round, 0.5 - accuracy.
NewAdjustmentFactorInverted(hits, len) ==
    Clamp(27500 - ((35000 * hits) \div len), MIN_WEIGHT_FACTOR, MAX_WEIGHT_FACTOR)

\* Lines 1425-1430: clamp(1 + (accuracy - 0.5) * 3.5), accuracy = hits / len.
NewAdjustmentFactor(hits, len) ==
    Clamp(((35000 * hits) \div len) - 7500, MIN_WEIGHT_FACTOR, MAX_WEIGHT_FACTOR)

\* Probation without the band between 0.40 and 0.55: on below 0.40, off otherwise.
ProbationNoBand(onProbation, hits, len) ==
    len >= PROBATION_MIN_OBSERVATIONS /\ hits * Unit < PROBATION_THRESHOLD_ACCURACY * len

\* Lines 1432-1436: probation is entered below 0.40 and left above 0.55.
ProbationAfter(onProbation, hits, len) ==
    IF len >= PROBATION_MIN_OBSERVATIONS /\ hits * Unit < PROBATION_THRESHOLD_ACCURACY * len
    THEN TRUE
    ELSE IF hits * Unit > (PROBATION_THRESHOLD_ACCURACY + 1500) * len
    THEN FALSE
    ELSE onProbation

\* Lines 1439-1441: the learning rate of alphaFactor, in units of 1/10000.
AlphaLearningRate(hits, len) ==
    IF hits * Unit < 3500 * len THEN (ALPHA_UPDATE_RATE * 175) \div 100
    ELSE IF hits * Unit < 4500 * len THEN (ALPHA_UPDATE_RATE * 14) \div 10
    ELSE ALPHA_UPDATE_RATE

\* Lines 1443-1447: alphaFactor moves toward the new adjustment factor.
AlphaAfter(alpha, newFactor, rate) ==
    IF newFactor > alpha
    THEN Min(MAX_ALPHA_FACTOR, alpha + (rate * (newFactor - alpha)) \div Unit)
    ELSE Max(MIN_ALPHA_FACTOR, alpha - (rate * (alpha - newFactor)) \div Unit)

\* Lines 1378-1451: what updateSignalPerformance does for one contributing
\* signal.  st.sp is signalPerformance; st.low is the observation of which
\* sources' latest accuracy computation (lines 1425-1433) was below 0.40 on a
\* window of at least 15.
UpdateOneSignal(st, signal, actualOutcome, periodFull, vol, isHigh, isOverallCorrect, amplified) ==
    LET sp == st.sp
        source == signal.source
        r0 == IF source \in DOMAIN sp THEN sp[source] ELSE NewRecord
        b0 == r0.performanceByVolatility
        bucket == IF vol \in DOMAIN b0 THEN b0[vol] ELSE [correct |-> 0, total |-> 0]
        counted == r0.lastActivePeriod # periodFull \/ r0.total = 0
        outcomeCorrect == IF signal.prediction = actualOutcome THEN 1 ELSE 0
        window == TrimWindow(Append(r0.recentAccuracy, outcomeCorrect))
        len == Len(window)
        hits == Sum(window)
        total == r0.total + 1
        adjusts == total >= MIN_OBSERVATIONS_FOR_ADJUST /\ 2 * len >= PERFORMANCE_WINDOW
        newFactor == NewAdjustmentFactor(hits, len)
        delta == ImportanceDelta(outcomeCorrect, isHigh, isOverallCorrect, amplified)
        bucket1 == IF counted
                   THEN [correct |-> bucket.correct + outcomeCorrect, total |-> bucket.total + 1]
                   ELSE bucket
        b1 == [l \in DOMAIN b0 \cup {vol} |-> IF l = vol THEN bucket1 ELSE b0[l]]
        r1 == IF counted
              THEN [r0 EXCEPT
                      !.total = total,
                      !.sessionTotal = @ + 1,
                      !.correct = @ + outcomeCorrect,
                      !.sessionCorrect = @ + outcomeCorrect,
                      !.performanceByVolatility = b1,
                      !.longTermImportanceScore = Min(Unit, Max(0, @ + delta)),
                      !.recentAccuracy = window,
                      !.currentAdjustmentFactor = IF adjusts THEN newFactor ELSE @,
                      !.isOnProbation = IF adjusts THEN ProbationAfter(@, hits, len) ELSE @,
                      !.alphaFactor = IF adjusts
                                      THEN AlphaAfter(@, newFactor, AlphaLearningRate(hits, len))
                                      ELSE @,
                      !.lastActivePeriod = periodFull]
              ELSE [r0 EXCEPT !.performanceByVolatility = b1]
        r2 == [r1 EXCEPT !.lastUpdatePeriod = periodFull]
        low == IF counted /\ adjusts
               THEN (IF len >= PROBATION_MIN_OBSERVATIONS
                        /\ hits * Unit < PROBATION_THRESHOLD_ACCURACY * len
                     THEN st.low \cup {source} ELSE st.low \ {source})
               ELSE st.low
    IN  [sp |-> [s \in DOMAIN sp \cup {source} |-> IF s = source THEN r2 ELSE sp[s]],
         low |-> low]

\* contributingSignals.forEach (line 1377)
RECURSIVE ForEachSignal(_, _, _, _, _, _, _, _)
ForEachSignal(st, signals, actualOutcome, periodFull, vol, isHigh, isOverallCorrect, amplified) ==
    IF signals = << >> THEN st
    ELSE ForEachSignal(
             UpdateOneSignal(st, Head(signals), actualOutcome, periodFull, vol,
                             isHigh, isOverallCorrect, amplified),
             Tail(signals), actualOutcome, periodFull, vol, isHigh, isOverallCorrect, amplified)

\* updateSignalPerformance (lines 1372-1453).  actualOutcome is "BIG", "SMALL"
\* or null, as ultraAIPredict passes it (line 1982); lastFinalConfidence is in
\* units of 1/10000.
updateSignalPerformance(st, contributingSignals, actualOutcome, periodFull, currentVolatilityRegime, lastFinalConfidence, concentrationModeActive, marketEntropyState) ==
    IF actualOutcome = NULL \/ contributingSignals = << >> THEN st
    ELSE LET isHighConfidencePrediction == lastFinalConfidence > 7500
             isOverallCorrect ==
                 getBigSmallFromNumber(actualOutcome)
                     = (IF lastFinalConfidence > 5000 THEN "BIG" ELSE "SMALL")
             amplified == concentrationModeActive \/ IncludesChaos(marketEntropyState)
         IN  ForEachSignal(st, contributingSignals, actualOutcome, periodFull,
                           currentVolatilityRegime, isHighConfidencePrediction,
                           isOverallCorrect, amplified)

\* The decay step without the stop at 1.0.
DecayInactiveCrossing(perf) ==
    [perf EXCEPT
       !.currentAdjustmentFactor =
           IF @ > Unit THEN @ - DECAY_RATE
           ELSE IF @ < Unit THEN @ + DECAY_RATE ELSE @,
       !.isOnProbation = FALSE]

\* Lines 1329-1333: a record inactive for more than 90 periods moves its
\* adjustment factor one step toward 1.0 and leaves probation.
DecayInactive(perf) ==
    [perf EXCEPT
       !.currentAdjustmentFactor =
           IF @ > Unit THEN Max(Unit, @ - DECAY_RATE)
           ELSE IF @ < Unit THEN Min(Unit, @ + DECAY_RATE) ELSE @,
       !.isOnProbation = FALSE]

\* A final factor that probation does not cap.
ProbationUncapped(finalAdjustmentFactor, isOnProbation) == finalAdjustmentFactor

\* Lines 1360-1362
ProbationCap(finalAdjustmentFactor, isOnProbation) ==
    IF isOnProbation THEN Min(finalAdjustmentFactor, PROBATION_WEIGHT_CAP)
    ELSE finalAdjustmentFactor

\* Lines 1338-1345: the volatility-specific adjustment of the read.
VolatilityAdjustment(perf, vol) ==
    IF vol \in DOMAIN perf.performanceByVolatility
       /\ 2 * perf.performanceByVolatility[vol].total >= MIN_OBSERVATIONS_FOR_ADJUST
    THEN LET volPerf == perf.performanceByVolatility[vol] IN
         Clamp(Unit + ((13000 * volPerf.correct) \div volPerf.total) - 6500, 5500, 14500)
    ELSE Unit

\* Lines 1348-1354: the session adjustment of the read.
SessionAdjustment(perf) ==
    IF perf.sessionTotal >= 3
    THEN Clamp(Unit + ((15000 * perf.sessionCorrect) \div perf.sessionTotal) - 7500,
               6000, 14000)
    ELSE Unit

\* Line 1357: the product of the five factors, in units of 1/10000.
FinalAdjustmentFactor(perf, vol) ==
    LET a == (perf.currentAdjustmentFactor * perf.alphaFactor) \div Unit
        b == (a * VolatilityAdjustment(perf, vol)) \div Unit
        c == (b * SessionAdjustment(perf)) \div Unit
    IN  (c * (7000 + (perf.longTermImportanceScore * 6) \div 10)) \div Unit

\* getDynamicWeightAdjustment (lines 1310-1366).  baseWeight is in units of
\* 1/10000; the returned weight is in units of 1/10000 of that.
getDynamicWeightAdjustment(sp, signalSourceName, baseWeight, currentPeriodFull, currentVolatilityRegime, sessionHistoryLength) ==
    IF signalSourceName \notin DOMAIN sp
    THEN [sp |-> [s \in DOMAIN sp \cup {signalSourceName} |->
                     IF s = signalSourceName THEN NewRecord ELSE sp[s]],
          ret |-> Max(baseWeight, MIN_ABSOLUTE_WEIGHT) * Unit]
    ELSE LET p0 == sp[signalSourceName]
             p1 == IF sessionHistoryLength <= 1
                   THEN [p0 EXCEPT !.sessionCorrect = 0, !.sessionTotal = 0] ELSE p0
             p2 == IF p1.lastUpdatePeriod # currentPeriodFull
                      /\ p1.lastActivePeriod # NoPeriod
                      /\ currentPeriodFull - p1.lastActivePeriod > INACTIVITY_PERIOD_FOR_DECAY
                   THEN DecayInactive(p1) ELSE p1
             perf == [p2 EXCEPT !.lastUpdatePeriod = currentPeriodFull]
             finalAdjustmentFactor ==
                 ProbationCap(FinalAdjustmentFactor(perf, currentVolatilityRegime),
                              perf.isOnProbation)
         IN  [sp |-> [sp EXCEPT ![signalSourceName] = perf],
              ret |-> Max(baseWeight * finalAdjustmentFactor, MIN_ABSOLUTE_WEIGHT * Unit)]

\* The <<source, period id>> pairs after a call of updateSignalPerformance:
\* a call without an outcome returns at line 1373 and scores nothing.
ScoredAfter(scored, signals, actualOutcome, periodFull) ==
    IF actualOutcome = NULL THEN scored
    ELSE scored \cup {<<signals[i].source, periodFull>> : i \in DOMAIN signals}

\* One call of updateSignalPerformance (ultraAIPredict lines 1979-1988).
UpdateSignalPerformance(signals, actualOutcome, periodFull, vol, conf, conc, entropy) ==
    LET st == updateSignalPerformance([sp |-> signalPerformance, low |-> lowAccuracy],
                                      signals, actualOutcome, periodFull, vol, conf,
                                      conc, entropy) IN
    /\ signalPerformance' = st.sp
    /\ lowAccuracy' = st.low
    /\ scoredPeriods' = ScoredAfter(scoredPeriods, signals, actualOutcome, periodFull)
    /\ clock' = Max(clock, periodFull)
    /\ call' = [op |-> "updateSignalPerformance",
                sourcesBefore |-> DOMAIN signalPerformance]
    /\ prevCall' = call
    /\ UNCHANGED <<reflexVars, driftVars, cycleVars, regimeVars, serverVars>>

\* One call of getDynamicWeightAdjustment (ultraAIPredict lines 2039, 2070).
GetDynamicWeightAdjustment(source, baseWeight, currentPeriodFull, vol, sessionHistoryLength) ==
    LET r == getDynamicWeightAdjustment(signalPerformance, source, baseWeight,
                                        currentPeriodFull, vol, sessionHistoryLength)
        known == source \in DOMAIN signalPerformance IN
    /\ signalPerformance' = r.sp
    /\ lowAccuracy' = lowAccuracy \ {source}
    /\ call' = [op |-> "getDynamicWeightAdjustment",
                sourcesBefore |-> DOMAIN signalPerformance,
                source |-> source, baseWeight |-> baseWeight,
                currentPeriodFull |-> currentPeriodFull,
                wasLow |-> source \in lowAccuracy,
                lastActiveBefore |-> IF known THEN signalPerformance[source].lastActivePeriod
                                     ELSE NoPeriod,
                factorBefore |-> IF known
                                 THEN signalPerformance[source].currentAdjustmentFactor
                                 ELSE Unit,
                probationBefore |-> known /\ signalPerformance[source].isOnProbation,
                ret |-> r.ret]
    /\ prevCall' = call
    /\ UNCHANGED <<reflexVars, driftVars, cycleVars, regimeVars, serverVars, clock, scoredPeriods>>

\* The longest learning run explored.
MaxUpdates == 32

\* Calls with unrestricted arguments explored after the learning run.
MaxFree == 1

Sources == {"A", "B"}
VolatilityRegimes == {"MEDIUM", "HIGH"}
Outcomes == {"BIG", "SMALL"}

\* The learning run: source A votes BIG in every period and is scored against
\* the period's outcome; the outcomes form one run of one class followed by
\* at most one run of the other.
Learn(outcome) ==
    /\ freeCalls = 0
    /\ clock < MaxUpdates
    /\ outcomes.last \in {NULL, outcome} \/ ~outcomes.changed
    /\ outcomes' = [last |-> outcome,
                    changed |-> outcomes.changed \/ outcomes.last \notin {NULL, outcome}]
    /\ UpdateSignalPerformance(<<[source |-> "A", prediction |-> "BIG"]>>, outcome,
                               clock + 1, "MEDIUM", 8000, FALSE, "STABLE_MODERATE")
    /\ UNCHANGED freeCalls

SignalLists ==
    {<< >>,
     <<[source |-> "A", prediction |-> "BIG"]>>,
     <<[source |-> "B", prediction |-> "SMALL"], [source |-> "A", prediction |-> "BIG"]>>}

\* lastConcentrationModeEngaged and lastMarketEntropyState of the carried state.
Contexts ==
    {[conc |-> FALSE, entropy |-> "STABLE_MODERATE"],
     [conc |-> TRUE, entropy |-> "STABLE_MODERATE"],
     [conc |-> FALSE, entropy |-> "RISING_CHAOS"]}

\* An update with any arguments: an empty or two-source signal list, a missing
\* outcome, the period just scored or the one before it, another volatility
\* bucket or confidence.
FreeUpdate ==
    /\ freeCalls < MaxFree
    /\ freeCalls' = freeCalls + 1
    /\ UNCHANGED outcomes
    /\ \E signals \in SignalLists, actualOutcome \in Outcomes \cup {NULL},
          periodFull \in {Max(clock - 1, 0), clock, clock + 1}, vol \in VolatilityRegimes,
          conf \in {6000, 8000}, context \in Contexts :
          UpdateSignalPerformance(signals, actualOutcome, periodFull, vol, conf,
                                  context.conc, context.entropy)

\* A read with any arguments: a known or new source, a base weight of 0.002 or
\* 0.15, the period just scored or one 90 or 91 periods later, either
\* volatility regime, a history of one record or of sixty.
FreeRead ==
    /\ freeCalls < MaxFree
    /\ freeCalls' = freeCalls + 1
    /\ UNCHANGED outcomes
    /\ \E source \in Sources, baseWeight \in {20, 1500},
          currentPeriodFull \in {clock, clock + 90, clock + 91},
          vol \in VolatilityRegimes, sessionHistoryLength \in {1, 60} :
          GetDynamicWeightAdjustment(source, baseWeight, currentPeriodFull, vol,
                                     sessionHistoryLength)

\* Reads of source A after the learning run.
MaxReads == 3

\* A read of source A 89, 90, 91 or 92 periods after the last scored period.
DecayRead ==
    /\ freeCalls < MaxReads
    /\ freeCalls' = freeCalls + 1
    /\ UNCHANGED outcomes
    /\ \E currentPeriodFull \in {clock + 89, clock + 90, clock + 91, clock + 92} :
          GetDynamicWeightAdjustment("A", 1500, currentPeriodFull, "MEDIUM", 60)

----------------------------------------------------------------------------
\* The prediction cycle: ultraAIPredict (predictionLogic.js:1919-2182)
\*
\* The history analyzers (lines 238-1157 and 1160-1255) are pure functions of
\* the history; a cycle takes what they return as its input: a market view
\* (trend context, stability, entropy) and the list of votes the signal
\* analyzers produce.  The regime profiles' multipliers change only once a
\* profile has 25 scored predictions (line 1518) and are read at their
\* initial values (lines 1487-1501).

UNDEFINED == "undefined"

\* A numeric field of the carried state that is null.
NoNumber == 0 - 1

\* getPrimeTimeSession (lines 170-186); aggression and confidence in hundredths.
getPrimeTimeSession(istHour) ==
    IF istHour >= 10 /\ istHour < 12
    THEN [session |-> "PRIME_MORNING", aggression |-> 125, confidence |-> 115]
    ELSE IF istHour >= 13 /\ istHour < 14
    THEN [session |-> "PRIME_AFTERNOON_1", aggression |-> 115, confidence |-> 110]
    ELSE IF istHour >= 15 /\ istHour < 16
    THEN [session |-> "PRIME_AFTERNOON_2", aggression |-> 115, confidence |-> 110]
    ELSE IF istHour >= 17 /\ istHour < 20
    THEN (IF istHour = 19
          THEN [session |-> "PRIME_EVENING_PEAK", aggression |-> 135, confidence |-> 125]
          ELSE [session |-> "PRIME_EVENING", aggression |-> 130, confidence |-> 120])
    ELSE [session |-> NULL, aggression |-> 100, confidence |-> 100]

\* getRealTimeExternalData (lines 138-167): the product of the three factors,
\* each in hundredths, so the result is in units of 1/1000000.
getRealTimeExternalData(weather, news, marketVol) ==
    LET weatherFactor == IF weather \in {"Clear", "Clouds"} THEN 101
                         ELSE IF weather \in {"Rain", "Drizzle"} THEN 99 ELSE 100
        newsFactor == CASE news = "Strongly Positive" -> 105
                        [] news = "Positive" -> 102
                        [] news = "Negative" -> 98
                        [] news = "Strongly Negative" -> 95
                        [] OTHER -> 100
        marketVolFactor == IF marketVol = "Elevated" THEN 97
                           ELSE IF marketVol = "High" THEN 94 ELSE 100
    IN  weatherFactor * newsFactor * marketVolFactor

\* getMarketRegimeAndTrendContext, lines 211-231: the macro regime label.
MacroRegime(strength, volatility, isTransitioning) ==
    LET low == volatility \in {"LOW", "VERY_LOW"}
        base == IF strength = "STRONG"
                THEN (IF low THEN "TREND_STRONG_LOW_VOL"
                      ELSE IF volatility = "MEDIUM" THEN "TREND_STRONG_MED_VOL"
                      ELSE "TREND_STRONG_HIGH_VOL")
                ELSE IF strength = "MODERATE"
                THEN (IF low THEN "TREND_MOD_LOW_VOL"
                      ELSE IF volatility = "MEDIUM" THEN "TREND_MOD_MED_VOL"
                      ELSE "TREND_MOD_HIGH_VOL")
                ELSE IF strength = "RANGING"
                THEN (IF low THEN "RANGE_LOW_VOL"
                      ELSE IF volatility = "MEDIUM" THEN "RANGE_MED_VOL"
                      ELSE "RANGE_HIGH_VOL")
                ELSE (IF volatility = "HIGH" THEN "WEAK_HIGH_VOL"
                      ELSE IF volatility = "MEDIUM" THEN "WEAK_MED_VOL"
                      ELSE "WEAK_LOW_VOL")
    IN  IF isTransitioning THEN [regime |-> base, transition |-> TRUE]
        ELSE [regime |-> base, transition |-> FALSE]

\* analyzeMarketEntropyState, lines 1250-1253: instability overrides a calm state.
EntropyState(state, isStable) ==
    IF ~isStable /\ state \in {"ORDERLY", "STABLE_MODERATE"}
    THEN "POTENTIAL_CHAOS_FROM_INSTABILITY" ELSE state

\* REGIME_SIGNAL_PROFILES (lines 1487-1501): the signal types a regime admits
\* and its contextualAggression in hundredths.  A label with the _TRANSITION
\* suffix has no profile and falls back to DEFAULT (line 2009).
AllTypes == {"all"}

RegimeProfile(macroRegime) ==
    IF macroRegime.transition THEN [activeSignalTypes |-> AllTypes, contextualAggression |-> 90]
    ELSE CASE macroRegime.regime = "TREND_STRONG_LOW_VOL" ->
                [activeSignalTypes |-> {"trend", "momentum", "ichimoku", "volBreak", "leadLag",
                                        "stateSpace", "fusion", "ml"},
                 contextualAggression |-> 135]
           [] macroRegime.regime = "TREND_STRONG_MED_VOL" ->
                [activeSignalTypes |-> {"trend", "momentum", "ichimoku", "pattern", "leadLag",
                                        "stateSpace", "fusion", "ml"},
                 contextualAggression |-> 125]
           [] macroRegime.regime = "TREND_STRONG_HIGH_VOL" ->
                [activeSignalTypes |-> {"trend", "ichimoku", "entropy", "volPersist", "zScore",
                                        "fusion"},
                 contextualAggression |-> 70]
           [] macroRegime.regime = "TREND_MOD_LOW_VOL" ->
                [activeSignalTypes |-> {"trend", "momentum", "ichimoku", "pattern", "volBreak",
                                        "leadLag", "stateSpace", "ml"},
                 contextualAggression |-> 125]
           [] macroRegime.regime = "TREND_MOD_MED_VOL" ->
                [activeSignalTypes |-> {"trend", "momentum", "ichimoku", "pattern", "rsi",
                                        "leadLag", "bayesian", "fusion", "ml"},
                 contextualAggression |-> 115]
           [] macroRegime.regime = "TREND_MOD_HIGH_VOL" ->
                [activeSignalTypes |-> {"trend", "ichimoku", "meanRev", "stochastic",
                                        "volPersist", "zScore"},
                 contextualAggression |-> 75]
           [] macroRegime.regime = "RANGE_LOW_VOL" ->
                [activeSignalTypes |-> {"meanRev", "pattern", "volBreak", "stochastic",
                                        "harmonic", "fractalDim", "zScore", "bayesian", "fusion"},
                 contextualAggression |-> 130]
           [] macroRegime.regime = "RANGE_MED_VOL" ->
                [activeSignalTypes |-> {"meanRev", "pattern", "stochastic", "rsi", "bollinger",
                                        "harmonic", "zScore"},
                 contextualAggression |-> 115]
           [] macroRegime.regime = "RANGE_HIGH_VOL" ->
                [activeSignalTypes |-> {"meanRev", "entropy", "bollinger", "vwapDev",
                                        "volPersist", "zScore", "fusion"},
                 contextualAggression |-> 65]
           [] macroRegime.regime = "WEAK_HIGH_VOL" ->
                [activeSignalTypes |-> {"meanRev", "entropy", "stochastic", "volPersist",
                                        "fractalDim", "zScore"},
                 contextualAggression |-> 70]
           [] macroRegime.regime = "WEAK_MED_VOL" ->
                [activeSignalTypes |-> {"momentum", "meanRev", "pattern", "rsi", "fractalDim",
                                        "bayesian"},
                 contextualAggression |-> 75]
           [] macroRegime.regime = "WEAK_LOW_VOL" ->
                [activeSignalTypes |-> AllTypes, contextualAggression |-> 85]
           [] OTHER -> [activeSignalTypes |-> AllTypes, contextualAggression |-> 90]

\* The keys of REGIME_SIGNAL_PROFILES.
ProfileNames ==
    {"TREND_STRONG_LOW_VOL", "TREND_STRONG_MED_VOL", "TREND_STRONG_HIGH_VOL",
     "TREND_MOD_LOW_VOL", "TREND_MOD_MED_VOL", "TREND_MOD_HIGH_VOL",
     "RANGE_LOW_VOL", "RANGE_MED_VOL", "RANGE_HIGH_VOL",
     "WEAK_HIGH_VOL", "WEAK_MED_VOL", "WEAK_LOW_VOL", "DEFAULT"}

\* The two multipliers of a profile are held in units of 10^-9, in which every
\* step of the regime learner is a whole number.
Nano == 1000 * 1000 * 1000

\* baseWeightMultiplier of lines 1488-1500, in hundredths.
InitialBaseWeightMultiplier(name) ==
    CASE name = "TREND_STRONG_LOW_VOL" -> 130
      [] name = "TREND_STRONG_MED_VOL" -> 120
      [] name = "TREND_STRONG_HIGH_VOL" -> 70
      [] name = "TREND_MOD_LOW_VOL" -> 125
      [] name = "TREND_MOD_MED_VOL" -> 115
      [] name = "TREND_MOD_HIGH_VOL" -> 75
      [] name = "RANGE_LOW_VOL" -> 130
      [] name = "RANGE_MED_VOL" -> 115
      [] name = "RANGE_HIGH_VOL" -> 65
      [] name = "WEAK_HIGH_VOL" -> 70
      [] name = "WEAK_MED_VOL" -> 75
      [] name = "WEAK_LOW_VOL" -> 85
      [] OTHER -> 90

\* REGIME_SIGNAL_PROFILES as the module is loaded (lines 1487-1501).
InitialProfiles ==
    [name \in ProfileNames |->
        LET profile == RegimeProfile([regime |-> name, transition |-> FALSE]) IN
        [baseWeightMultiplier |-> InitialBaseWeightMultiplier(name) * (Nano \div 100),
         activeSignalTypes |-> profile.activeSignalTypes,
         contextualAggression |-> profile.contextualAggression * (Nano \div 100),
         recentAccuracy |-> << >>, totalPredictions |-> 0, correctPredictions |-> 0]]

\* REGIME_SIGNAL_PROFILES[regime] is defined: the label is one of the keys (a
\* label with the _TRANSITION suffix, UNKNOWN_REGIME and UNCERTAIN are not).
HasProfile(macroRegime) ==
    ~macroRegime.transition /\ macroRegime.regime \in ProfileNames

\* Line 2008: the profile of the cycle's regime, or DEFAULT; its
\* contextualAggression in hundredths, as the cycle's weights are computed.
CurrentRegimeProfile(profiles, macroRegime) ==
    LET profile == IF HasProfile(macroRegime) THEN profiles[macroRegime.regime]
                   ELSE profiles["DEFAULT"] IN
    [activeSignalTypes |-> profile.activeSignalTypes,
     contextualAggression |-> profile.contextualAggression \div (Nano \div 100)]

REGIME_ACCURACY_WINDOW == 35

\* Lines 1520-1523: currentLearningRate in units of 10^-9, from the global
\* accuracy in units of 1/10000.
RegimeLearningRate(globalAccuracy) ==
    LET distance == IF globalAccuracy >= Unit \div 2 THEN globalAccuracy - Unit \div 2
                    ELSE Unit \div 2 - globalAccuracy
        \* dynamicLearningRateFactor in units of 10^-5
        dynamicLearningRateFactor == Max(65000, Min(150000, 100000 + 7 * distance))
    IN  Max(10 * 1000 * 1000, Min(70 * 1000 * 1000, 280 * dynamicLearningRateFactor))

\* A learner step whose multipliers are not clamped.
LearnMultipliersUnclamped(profile, currentLearningRate) ==
    LET len == Len(profile.recentAccuracy)
        hits == Sum(profile.recentAccuracy) IN
    IF 10 * len < 7 * REGIME_ACCURACY_WINDOW THEN profile
    ELSE IF hits * 100 > 62 * len
    THEN [profile EXCEPT
            !.baseWeightMultiplier = @ + currentLearningRate,
            !.contextualAggression = @ + currentLearningRate \div 2]
    ELSE IF hits * 100 < 38 * len
    THEN [profile EXCEPT
            !.baseWeightMultiplier = @ - (currentLearningRate * 13) \div 10,
            !.contextualAggression = @ - (currentLearningRate * 7) \div 10]
    ELSE profile

\* Lines 1518-1532: once the window holds at least 0.7 * 35 samples the two
\* multipliers move with the regime's accuracy.
LearnMultipliers(profile, currentLearningRate) ==
    LET len == Len(profile.recentAccuracy)
        hits == Sum(profile.recentAccuracy) IN
    IF 10 * len < 7 * REGIME_ACCURACY_WINDOW THEN profile
    ELSE IF hits * 100 > 62 * len
    THEN [profile EXCEPT
            !.baseWeightMultiplier = Min(19 * (Nano \div 10), @ + currentLearningRate),
            !.contextualAggression = Min(18 * (Nano \div 10), @ + currentLearningRate \div 2)]
    ELSE IF hits * 100 < 38 * len
    THEN [profile EXCEPT
            !.baseWeightMultiplier = Max(2 * (Nano \div 10),
                                         @ - (currentLearningRate * 13) \div 10),
            !.contextualAggression = Max(3 * (Nano \div 10),
                                         @ - (currentLearningRate * 7) \div 10)]
    ELSE profile

\* updateRegimeProfilePerformance (lines 1506-1534) as a function of the
\* profiles and the global accuracy: the profiles after the call.
updateRegimeProfilePerformance(profiles, globalAccuracy, regime, actualOutcome, predictedOutcome) ==
    IF HasProfile(regime) /\ predictedOutcome # NULL
    THEN LET profile == profiles[regime.regime]
             outcomeCorrect == IF actualOutcome = predictedOutcome THEN 1 ELSE 0
             pushed == Append(profile.recentAccuracy, outcomeCorrect)
             counted == [profile EXCEPT
                           !.totalPredictions = @ + 1,
                           !.correctPredictions = @ + outcomeCorrect,
                           !.recentAccuracy = IF Len(pushed) > REGIME_ACCURACY_WINDOW
                                              THEN Tail(pushed) ELSE pushed]
         IN  [profiles EXCEPT ![regime.regime] =
                                  LearnMultipliers(counted, RegimeLearningRate(globalAccuracy))]
    ELSE profiles

\* Lines 1940-1942: the module keeps the caller's long-term accuracy.
GlobalAccuracyAfter(globalAccuracy, stats) ==
    IF stats.longTermGlobalAccuracy # NoNumber THEN stats.longTermGlobalAccuracy
    ELSE globalAccuracy

\* Lines 1979, 1990-1992: the regime learner is called when the carried state
\* holds an outcome and a predicted class.
RegimeUpdate(profiles, globalAccuracy, stats) ==
    IF stats.lastActualOutcome \notin {NULL, UNDEFINED}
    THEN updateRegimeProfilePerformance(profiles, globalAccuracy, stats.lastMacroRegime,
                                        getBigSmallFromNumber(stats.lastActualOutcome),
                                        stats.lastPredictedOutcome)
    ELSE profiles

\* analyzeAdvancedMarketRegime (lines 1264-1289): bullTrend and bearTrend in
\* hundredths.
analyzeAdvancedMarketRegime(trendContext, entropy) ==
    IF trendContext.strength = "STRONG" /\ trendContext.volatility # "HIGH" /\ entropy = "ORDERLY"
    THEN (IF trendContext.direction \in {"BIG", "BIG_BIASED_RANGE"}
          THEN [bullTrend |-> 80, bearTrend |-> 5]
          ELSE [bullTrend |-> 5, bearTrend |-> 80])
    ELSE IF trendContext.strength = "RANGING" /\ trendContext.volatility = "HIGH"
            /\ IncludesChaos(entropy)
    THEN [bullTrend |-> 10, bearTrend |-> 10]
    ELSE IF trendContext.strength = "RANGING" /\ trendContext.volatility = "VERY_LOW"
    THEN [bullTrend |-> 10, bearTrend |-> 10]
    ELSE [bullTrend |-> 25, bearTrend |-> 25]

\* A vote is what a signal analyzer returns: [source, type, prediction, weight],
\* type being the signal type addSignal is called with and weight in units of
\* 1/10000.  A signal is a vote with the adjustedWeight (units of 1/10^8) that
\* getDynamicWeightAdjustment gave it.

\* getCategory of analyzePredictionConsensus (lines 1673-1682), by source name.
ConsensusCategory(source) ==
    CASE source \in {"MACD_CrossB", "MACD_CrossS", "Ichimoku", "StateSpaceMomentum",
                     "Vol-Trend-Fusion"} -> "trend"
      [] source \in {"Stochastic", "RSI"} -> "momentum"
      [] source \in {"Bollinger", "MADev", "ZScoreAnomaly"} -> "meanRev"
      [] source \in {"Alt-BSBS->S", "Alt-SBSB->B", "Pattern-BBS->B", "Pattern-SSB->S",
                     "HarmonicPotV3"} -> "pattern"
      [] source \in {"VolPersist", "FractalDim", "QuantumTunneling"} -> "volatility"
      [] source \in {"Bayesian", "MonteCarlo", "QuantumSuperposition"} -> "probabilistic"
      [] source \in {"ML-GradientBoost"} -> "ml"
      [] OTHER -> NULL

\* The categories of analyzePathConfluenceStrength (lines 1771-1779).
ConfluenceCategory(source) ==
    CASE source \in {"MACD_CrossB", "MACD_CrossS", "Ichimoku"} -> "trend"
      [] source \in {"Stochastic", "RSI"} -> "momentum"
      [] source \in {"Bollinger", "ZScoreAnomaly"} -> "meanRev"
      [] source \in {"Pattern-BBS->B", "Pattern-SSB->S"} -> "pattern"
      [] source \in {"Vol-Trend-Fusion", "VolPersist", "FractalDim"} -> "volatility"
      [] source \in {"Bayesian", "QuantumSuperposition", "ML-GradientBoost"} -> "probabilistic"
      [] OTHER -> "other"

\* The sum of adjustedWeight over the signals at the given positions.
RECURSIVE WeightOver(_, _)
WeightOver(signals, positions) ==
    IF positions = {} THEN 0
    ELSE LET i == CHOOSE j \in positions : TRUE IN
         signals[i].adjustedWeight + WeightOver(signals, positions \ {i})

ClassWeight(signals, class) ==
    WeightOver(signals, {i \in DOMAIN signals : signals[i].prediction = class})

CategoryWeight(signals, category, class) ==
    WeightOver(signals, {i \in DOMAIN signals :
                            /\ ConsensusCategory(signals[i].source) = category
                            /\ signals[i].prediction = class})

ConsensusCategories ==
    {"trend", "momentum", "meanRev", "pattern", "volatility", "probabilistic", "ml"}

\* analyzePredictionConsensus (lines 1658-1728): the consensus factor in units
\* of 1/10000.
analyzePredictionConsensus(signals, trendContext) ==
    IF Len(signals) < 4 THEN [score |-> Unit \div 2, factor |-> Unit]
    ELSE LET big(c) == CategoryWeight(signals, c, "BIG") \div 100
             small(c) == CategoryWeight(signals, c, "SMALL") \div 100
             weighted == {c \in ConsensusCategories :
                             CategoryWeight(signals, c, "BIG")
                               + CategoryWeight(signals, c, "SMALL") > 0}
             bigCats == Cardinality({c \in weighted : big(c) * 10 > small(c) * 12})
             smallCats == Cardinality({c \in weighted :
                                          /\ ~(big(c) * 10 > small(c) * 12)
                                          /\ small(c) * 10 > big(c) * 12})
             totalCats == Cardinality(weighted)
             consensusScore ==
                 IF totalCats > 0
                 THEN ((Max(bigCats, smallCats) - Min(bigCats, smallCats)) * Unit) \div totalCats
                 ELSE Unit \div 2
             factor == Unit + (consensusScore * 4) \div 10
             tb == CategoryWeight(signals, "trend", "BIG")
             ts == CategoryWeight(signals, "trend", "SMALL")
             mb == CategoryWeight(signals, "momentum", "BIG")
             ms == CategoryWeight(signals, "momentum", "SMALL")
             conflict == /\ trendContext.strength = "STRONG"
                         /\ \/ tb > ts /\ ms > mb
                            \/ ts > tb /\ mb > ms
         IN  [score |-> consensusScore,
              factor |-> Max(4000, Min(16000, IF conflict THEN (factor * 6) \div 10 ELSE factor))]

\* analyzeQuantumSuperpositionState (lines 1730-1759): the list of its one further vote, empty
\* where the code returns null.
analyzeQuantumSuperpositionState(signals, consensus, baseWeight) ==
    LET totalWeight == WeightOver(signals, DOMAIN signals) \div Unit
        bigWeight == ClassWeight(signals, "BIG") \div Unit
        smallWeight == ClassWeight(signals, "SMALL") \div Unit
    IN  IF Len(signals) < 5 \/ totalWeight < 1000 THEN << >>
        ELSE LET bigCollapseProbability == (bigWeight * consensus.factor) \div totalWeight
                 smallCollapseProbability ==
                     (smallWeight * (2 * Unit - consensus.factor)) \div totalWeight
             IN  IF bigCollapseProbability * 10 > smallCollapseProbability * 13
                 THEN <<[source |-> "QuantumSuperposition", type |-> "probabilistic",
                       prediction |-> "BIG",
                       weight |-> (baseWeight * Min(Unit, bigCollapseProbability
                                                          - smallCollapseProbability)) \div Unit]>>
                 ELSE IF smallCollapseProbability * 10 > bigCollapseProbability * 13
                 THEN <<[source |-> "QuantumSuperposition", type |-> "probabilistic",
                       prediction |-> "SMALL",
                       weight |-> (baseWeight * Min(Unit, smallCollapseProbability
                                                          - bigCollapseProbability)) \div Unit]>>
                 ELSE << >>

\* analyzeSignalConsistency (lines 1794-1809): the share of the majority class,
\* in units of 1/10000.
analyzeSignalConsistency(signals) ==
    IF Len(signals) < 3 THEN 7000
    ELSE LET bigVotes == Cardinality({i \in DOMAIN signals : signals[i].prediction = "BIG"})
             smallVotes == Cardinality({i \in DOMAIN signals : signals[i].prediction = "SMALL"})
         IN  IF bigVotes + smallVotes = 0 THEN Unit \div 2
             ELSE (Max(bigVotes, smallVotes) * Unit) \div (bigVotes + smallVotes)

\* analyzePathConfluenceStrength (lines 1762-1792): score in units of 1/10000.
analyzePathConfluenceStrength(signals, finalPrediction) ==
    LET agreeing == {i \in DOMAIN signals :
                        /\ signals[i].prediction = finalPrediction
                        /\ signals[i].adjustedWeight > MIN_ABSOLUTE_WEIGHT * 10 * Unit}
        diversePathCount == Cardinality({ConfluenceCategory(signals[i].source) : i \in agreeing})
        base == IF diversePathCount >= 4 THEN 2000
                ELSE IF diversePathCount = 3 THEN 1200
                ELSE IF diversePathCount = 2 THEN 500 ELSE 0
        veryStrongAgreeingCount ==
            Cardinality({i \in agreeing : signals[i].adjustedWeight > 1000 * Unit})
    IN  IF Len(signals) = 0 THEN [score |-> 0, diversePaths |-> 0]
        ELSE IF Cardinality(agreeing) < 2
        THEN [score |-> 0, diversePaths |-> Cardinality(agreeing)]
        ELSE [score |-> Min(base + Min(veryStrongAgreeingCount * 200, 1000), 3000),
              diversePaths |-> diversePathCount]

\* The score with a detected drift weighed like a drift warning.
calculateUncertaintyScoreDriftAsWarning(trendContext, stability, entropy, consistency, pathConfluence, globalAccuracy, isReflexiveCorrection, driftState) ==
      (IF isReflexiveCorrection THEN 8000 ELSE 0)
    + (IF driftState \in {"DRIFT", "WARNING"} THEN 4000 ELSE 0)
    + (IF stability.isStable THEN 0
       ELSE IF stability.reason \in {"Unstable: Extreme Outcome Dominance",
                                     "Unstable: Excessive Choppiness"}
       THEN 5000 ELSE 4000)
    + (IF IncludesChaos(entropy) THEN (IF entropy = "RISING_CHAOS" THEN 4500 ELSE 3500) ELSE 0)
    + (IF consistency < 6000 THEN (Unit - consistency) \div 2 ELSE 0)
    + (IF pathConfluence.diversePaths < 3 THEN (3 - pathConfluence.diversePaths) * 1500 ELSE 0)
    + (IF trendContext.isTransitioning THEN 2500 ELSE 0)
    + (IF trendContext.volatility = "HIGH" THEN 2000 ELSE 0)
    + (IF globalAccuracy # NoNumber /\ globalAccuracy < 4800
       THEN ((4800 - globalAccuracy) * 150) \div 100 ELSE 0)

\* calculateUncertaintyScore (lines 1843-1888), in hundredths of a point.
calculateUncertaintyScore(trendContext, stability, entropy, consistency, pathConfluence, globalAccuracy, isReflexiveCorrection, driftState) ==
      (IF isReflexiveCorrection THEN 8000 ELSE 0)
    + (IF driftState = "DRIFT" THEN 7000 ELSE IF driftState = "WARNING" THEN 4000 ELSE 0)
    + (IF stability.isStable THEN 0
       ELSE IF stability.reason \in {"Unstable: Extreme Outcome Dominance",
                                     "Unstable: Excessive Choppiness"}
       THEN 5000 ELSE 4000)
    + (IF IncludesChaos(entropy) THEN (IF entropy = "RISING_CHAOS" THEN 4500 ELSE 3500) ELSE 0)
    + (IF consistency < 6000 THEN (Unit - consistency) \div 2 ELSE 0)
    + (IF pathConfluence.diversePaths < 3 THEN (3 - pathConfluence.diversePaths) * 1500 ELSE 0)
    + (IF trendContext.isTransitioning THEN 2500 ELSE 0)
    + (IF trendContext.volatility = "HIGH" THEN 2000 ELSE 0)
    + (IF globalAccuracy # NoNumber /\ globalAccuracy < 4800
       THEN ((4800 - globalAccuracy) * 150) \div 100 ELSE 0)

\* What checkForAnomalousPerformance reads of the carried state.
ReflexView(stats) ==
    [lastFinalConfidence |-> IF stats.lastFinalConfidence = NoNumber THEN NULL ELSE "number",
     lastActualOutcome |-> IF stats.lastActualOutcome = UNDEFINED THEN NULL
                           ELSE stats.lastActualOutcome,
     lastPredictedOutcome |-> stats.lastPredictedOutcome,
     lastConfidenceLevel |-> stats.lastConfidenceLevel]

\* addSignal (lines 2014-2042) for one analyzer's vote: a vote of an admitted
\* signal type gets its adjustedWeight from getDynamicWeightAdjustment, which
\* also updates signalPerformance.  acc = [sp, low, signals].
addSignal(acc, v, activeSignalTypes, regimeContextualAggression, currentPeriodFull, volatility, historyLength) ==
    LET r == getDynamicWeightAdjustment(acc.sp, v.source,
                                        (v.weight * regimeContextualAggression) \div Unit,
                                        currentPeriodFull, volatility, historyLength)
    IN  IF "all" \in activeSignalTypes \/ v.type \in activeSignalTypes
        THEN [sp |-> r.sp, low |-> acc.low \ {v.source},
              signals |-> Append(acc.signals,
                                 [source |-> v.source, prediction |-> v.prediction,
                                  adjustedWeight |-> r.ret])]
        ELSE acc

\* The addSignal calls of lines 2045-2064 in order.  (The accumulator is bound
\* as a value at each step, so that it is computed once.)
RECURSIVE AddSignals(_, _, _, _, _, _, _)
AddSignals(acc, votes, activeSignalTypes, regimeContextualAggression, currentPeriodFull, volatility, historyLength) ==
    IF votes = << >> THEN acc
    ELSE CHOOSE out \in
             {AddSignals(addSignal(a, Head(votes), activeSignalTypes,
                                   regimeContextualAggression, currentPeriodFull,
                                   volatility, historyLength),
                         Tail(votes), activeSignalTypes, regimeContextualAggression,
                         currentPeriodFull, volatility, historyLength) : a \in {acc}} : TRUE

IsValidSignal(s) == s.adjustedWeight > MIN_ABSOLUTE_WEIGHT * Unit

\* lastPredictionSignals (line 2174), without the fields the next cycle ignores.
RECURSIVE CarriedSignals(_)
CarriedSignals(signals) ==
    IF signals = << >> THEN << >>
    ELSE <<[source |-> Head(signals).source, prediction |-> Head(signals).prediction]>>
             \o CarriedSignals(Tail(signals))

\* score * factor, for a score in units of 1/100000 and a factor in 1/10000.
Scale(score, factor) ==
    IF score < 100000 THEN (score * factor) \div Unit
    ELSE ((score \div 10) * factor) \div 1000

\* part / whole in units of 1/10000, for 0 <= part <= whole, whole > 0.
Ratio(part, whole) ==
    LET k == 1 + whole \div 100000 IN ((part \div k) * Unit) \div (whole \div k)

\* A display confidence clamped from above only.
ClampAbove(confidence) == Min(9990, confidence)

\* Lines 2155-2156: Math.max(0.001, Math.min(0.999, confidence))
DisplayConfidence(confidence) == Max(10, Min(9990, confidence))

\* The two forced-random returns (lines 1996-2005 and 2078-2086).
ForcedRandom(source, marker, finalDecision, macroRegime, concentrationModeEngaged, entropy, isReflexiveCorrection, volatility) ==
    [kind |-> "returned",
     BIG |-> Unit \div 2, SMALL |-> Unit \div 2,
     finalDecision |-> finalDecision, finalConfidence |-> Unit \div 2,
     confidenceLevel |-> 1, isForcedPrediction |-> TRUE,
     overallLogic |-> {marker}, source |-> source,
     predictionQualityScore |-> 100,
     reflexiveCorrectionActive |-> isReflexiveCorrection,
     lastPredictionSignals |-> << >>,
     lastMacroRegime |-> macroRegime,
     lastConcentrationModeEngaged |-> concentrationModeEngaged,
     lastMarketEntropyState |-> entropy,
     lastVolatilityRegime |-> volatility]

\* A decision that leaves equal scores to the random draw.
DecideTieRandom(bigScore, smallScore, coin) ==
    IF bigScore > smallScore THEN "BIG"
    ELSE IF smallScore > bigScore THEN "SMALL"
    ELSE coin

\* Line 2102: totalScore > 0 ? (bigScore >= smallScore ? "BIG" : "SMALL")
\*                           : (Math.random() > 0.5 ? "BIG" : "SMALL")
Decide(bigScore, smallScore, coin) ==
    IF bigScore + smallScore > 0
    THEN (IF bigScore >= smallScore THEN "BIG" ELSE "SMALL")
    ELSE coin

\* Lines 2088-2103: the decision and its fused confidence.
Fusion(validSignals, view, entropy, consensus, coin) ==
    LET probabilities == analyzeAdvancedMarketRegime(view, entropy)
        big1 == ((ClassWeight(validSignals, "BIG") \div 1000)
                    * (100 + probabilities.bullTrend - probabilities.bearTrend)) \div 100
        small1 == ((ClassWeight(validSignals, "SMALL") \div 1000)
                    * (100 + probabilities.bearTrend - probabilities.bullTrend)) \div 100
        bigScore == Scale(big1, consensus.factor)
        smallScore == Scale(small1, 2 * Unit - consensus.factor)
        totalScore == bigScore + smallScore
    IN  [bigScore |-> bigScore, smallScore |-> smallScore,
         finalDecision |-> Decide(bigScore, smallScore, coin),
         finalConfidence |-> IF totalScore > 0
                             THEN Ratio(Max(bigScore, smallScore), totalScore)
                             ELSE Unit \div 2]

\* A forced override that a score equal to the threshold does not trigger.
IsForcedStrict(uncertainty, uncertaintyThreshold, pqs) ==
    uncertainty > uncertaintyThreshold \/ pqs < 2000

\* Line 2143: uncertainty.score >= uncertaintyThreshold || pqs < 0.20
IsForced(uncertainty, uncertaintyThreshold, pqs) ==
    uncertainty >= uncertaintyThreshold \/ pqs < 2000

\* Lines 2106-2182: the boosts, the uncertainty damping, the quality score, the
\* confidence level, the forced override and the output.  uncertainty is in
\* hundredths of a point, everything else in units of 1/10000.
Ensemble(validSignals, fusion, consistency, pathConfluence, uncertainty, primeTimeSession, realTimeFactor, isReflexiveCorrection, driftState, context, jitter) ==
    LET finalDecision == fusion.finalDecision
        boosted == Unit \div 2
                     + ((((fusion.finalConfidence - Unit \div 2) * primeTimeSession.confidence)
                            \div 100) * (realTimeFactor \div 100)) \div Unit
        damped == Unit \div 2
                    + ((boosted - Unit \div 2) * (12000 - Min(12000, uncertainty))) \div 12000
        pqs == Max(100, Min(9900, Unit \div 2 + ((consistency - Unit \div 2) * 4) \div 10
                                      + (pathConfluence.score * 12) \div 10
                                      - uncertainty \div 5))
        prime == primeTimeSession.session # NULL
        highConfThreshold == IF prime THEN 7200 ELSE 7800
        medConfThreshold == IF prime THEN 6000 ELSE 6500
        highPqsThreshold == IF prime THEN 7000 ELSE 7500
        medPqsThreshold == IF prime THEN 5500 ELSE 6000
        level == IF damped > highConfThreshold /\ pqs > highPqsThreshold THEN 3
                 ELSE IF damped > medConfThreshold /\ pqs > medPqsThreshold THEN 2 ELSE 1
        uncertaintyThreshold == IF isReflexiveCorrection \/ driftState = "DRIFT"
                                THEN 6500 ELSE 9500
        isForced == IsForced(uncertainty, uncertaintyThreshold, pqs)
        finalConfidence == IF isForced THEN Unit \div 2 + ((jitter - Unit \div 2) * 2) \div 100
                           ELSE damped
    IN  [kind |-> "returned",
         BIG |-> DisplayConfidence(IF finalDecision = "BIG" THEN finalConfidence
                                   ELSE Unit - finalConfidence),
         SMALL |-> DisplayConfidence(IF finalDecision = "SMALL" THEN finalConfidence
                                     ELSE Unit - finalConfidence),
         finalDecision |-> finalDecision, finalConfidence |-> finalConfidence,
         confidenceLevel |-> IF isForced THEN 1 ELSE level,
         isForcedPrediction |-> isForced,
         overallLogic |-> IF isForced THEN {"FORCED_PREDICTION"} ELSE {},
         source |-> "RealTimeFusionV42",
         predictionQualityScore |-> pqs,
         reflexiveCorrectionActive |-> isReflexiveCorrection,
         lastPredictionSignals |-> CarriedSignals(validSignals),
         lastMacroRegime |-> context.macroRegime,
         lastConcentrationModeEngaged |-> context.concentrationModeEngaged,
         lastMarketEntropyState |-> context.entropy,
         lastVolatilityRegime |-> context.volatility]

\* Lines 1964-1971: the drift detector is fed when the carried state has a
\* lastActualOutcome field (null included).
DriftStep(dd, stats) ==
    IF stats.lastActualOutcome # UNDEFINED
    THEN detectConceptDrift(dd, getBigSmallFromNumber(stats.lastActualOutcome)
                                    = stats.lastPredictedOutcome)
    ELSE [dd |-> dd, ret |-> "STABLE"]

\* Lines 1979-1988: the performance update for the previous cycle's signals.
PerformanceUpdate(st, stats, volatility) ==
    IF stats.lastActualOutcome \notin {NULL, UNDEFINED}
    THEN updateSignalPerformance(st, stats.lastPredictionSignals,
                                 getBigSmallFromNumber(stats.lastActualOutcome),
                                 stats.lastPeriodFull,
                                 IF stats.lastVolatilityRegime = UNDEFINED
                                 THEN volatility ELSE stats.lastVolatilityRegime,
                                 stats.lastFinalConfidence,
                                 stats.lastConcentrationModeEngaged,
                                 IF stats.lastMarketEntropyState = UNDEFINED
                                 THEN "STABLE_MODERATE" ELSE stats.lastMarketEntropyState)
    ELSE st

\* Lines 2009-2012.
RegimeContextualAggression(profile, primeTimeSession, isReflexiveCorrection, driftState, concentrationModeEngaged) ==
    LET aggression == profile.contextualAggression * primeTimeSession.aggression
    IN  IF isReflexiveCorrection \/ driftState = "DRIFT" THEN aggression \div 4
        ELSE IF concentrationModeEngaged THEN (aggression * 6) \div 10
        ELSE aggression

----------------------------------------------------------------------------
\* The context classifiers on a history of records

\* A history record as server.js builds it (lines 72-79): actual is a digit
\* string (or a string that does not parse), actualNumber is the same string,
\* status is "Win", "Loss" or UNDEFINED.
HistoryRecord(actual, status) == [actual |-> actual, status |-> status]

\* Array.prototype.splice(start, end - start): the elements start..end-1
\* (0-based) are returned and removed from the receiver.
splice(array, start, end) ==
    [ret |-> SubSeq(array, start + 1, Min(end, Len(array))),
     self |-> SubSeq(array, 1, start) \o SubSeq(array, Min(end, Len(array)) + 1, Len(array))]

\* Array.prototype.slice(start, end): a copy of the elements start..end-1
\* (0-based); the receiver (self) is left as it was.
slice(array, start, end) ==
    [ret |-> SubSeq(array, start + 1, Min(end, Len(array))), self |-> array]

\* Array.prototype.reverse on an array value.
Reverse(array) == [i \in 1..Len(array) |-> array[Len(array) + 1 - i]]

IsNumber(n) == n # NaN

\* history.map(entry => parseInt(entry.actualNumber || entry.actual))
\*        .filter(n => !isNaN(n))   (lines 196, 244, 1191, 1220)
Numbers(entries) ==
    SelectSeq([i \in 1..Len(entries) |-> parseInt(entries[i].actual)], IsNumber)

IsClass(bs) == bs # NULL

\* entries.map(e => getBigSmallFromNumber(e.actual))
Classes(entries) == [i \in 1..Len(entries) |-> getBigSmallFromNumber(entries[i].actual)]

\* The unit of the moving averages: 1/1000000.
Micro == 1000 * 1000

\* calculateSMA (lines 17-22); null is NoNumber.
calculateSMA(data, period) ==
    IF Len(data) < period \/ period <= 0 THEN NoNumber
    ELSE (Sum(SubSeq(data, 1, period)) * Micro) \div period

\* The loop of lines 38-40, ema = data[i] * k + ema * (1 - k) with
\* k = 2 / (period + 1), rounded down to the unit at every step.
RECURSIVE EmaFrom(_, _, _, _)
EmaFrom(chronologicalData, i, ema, period) ==
    IF i > Len(chronologicalData) THEN ema
    ELSE CHOOSE out \in
             {EmaFrom(chronologicalData, i + 1,
                      (2 * chronologicalData[i] * Micro + e * (period - 1)) \div (period + 1),
                      period) : e \in {ema}} : TRUE

\* calculateEMA (lines 24-42): the data are copied before they are reversed.
calculateEMA(data, period) ==
    IF Len(data) < period \/ period <= 0 THEN NoNumber
    ELSE LET chronologicalData == Reverse(slice(data, 0, Len(data)).ret)
             initialSliceForSma == slice(chronologicalData, 0, period).ret
         IN  EmaFrom(chronologicalData, period + 1,
                     calculateSMA(Reverse(initialSliceForSma), period), period)

\* calculateStdDev (lines 44-51).  The standard deviation is the square root of
\* num / den; null is a negative num.
calculateStdDev(data, period) ==
    IF Len(data) < period \/ period < 2 THEN [num |-> 0 - 1, den |-> 1]
    ELSE LET relevantData == SubSeq(data, 1, period)
             s == Sum(relevantData)
             q == Sum([i \in 1..period |-> relevantData[i] * relevantData[i]])
         IN  [num |-> period * q - s * s, den |-> period * period]

\* stdDev > hundredths / 100 and stdDev < hundredths / 100, compared as squares.
StdDevAbove(sd, hundredths) == sd.num * 10000 > hundredths * hundredths * sd.den
StdDevBelow(sd, hundredths) == sd.num * 10000 < hundredths * hundredths * sd.den

\* a > b * (tenths / 10), compared as squares.
StdDevAboveTimes(a, b, tenths) ==
    a.num * b.den * 100 > tenths * tenths * b.num * a.den

\* a < b * (tenths / 10), compared as squares.
StdDevBelowTimes(a, b, tenths) ==
    a.num * b.den * 100 < tenths * tenths * b.num * a.den

\* A standard deviation that is neither null nor 0 (truthy).
Truthy(sd) == sd.num > 0

\* The unit of the logarithms: 2^-14.
LogUnit == 128 * 128

\* The fractional bits of log2(m / LogUnit) for LogUnit <= m < 2 * LogUnit, by
\* repeated squaring; w is the weight of the next bit.
RECURSIVE Log2Bits(_, _, _)
Log2Bits(m, w, acc) ==
    IF w = 0 THEN acc
    ELSE LET sq == (m * m) \div LogUnit IN
         IF sq >= 2 * LogUnit THEN Log2Bits(sq \div 2, w \div 2, acc + w)
         ELSE Log2Bits(sq, w \div 2, acc)

\* Math.log2(n) for an integer n >= 1, in units of 1 / LogUnit.
RECURSIVE Log2From(_, _)
Log2From(n, whole) ==
    IF n >= 2 * LogUnit THEN Log2From(n \div 2, whole + 1)
    ELSE whole * LogUnit + Log2Bits(n, LogUnit \div 2, 0)

Log2(n) == Log2From(n * LogUnit, 0)

Count(classes, class) == Len(SelectSeq(classes, LAMBDA o : o = class))

\* calculateEntropyForSignal (lines 606-617), in units of 1/10000; null is
\* NoNumber.  -sum p * log2(p) = log2(total) - sum count * log2(count) / total.
calculateEntropyForSignal(classes, windowSize) ==
    IF Len(classes) < windowSize THEN NoNumber
    ELSE LET window == SubSeq(classes, 1, windowSize)
             big == Count(window, "BIG")
             small == Count(window, "SMALL")
             totalValidOutcomes == big + small
             part(c) == IF c > 0 THEN c * Log2(c) ELSE 0
         IN  IF totalValidOutcomes = 0 THEN Unit
             ELSE (((totalValidOutcomes * Log2(totalValidOutcomes) - part(big) - part(small))
                       \div totalValidOutcomes) * Unit) \div LogUnit

\* (shortMA - longMA) / stdDevLong > hundredths / 100 (lines 257-259), for a
\* spread in units of 1/1000000; a standard deviation of at most epsilon =
\* 0.001 is replaced by epsilon.  The spread is compared in hundredths.
SpreadAbove(spread, sd, hundredths) ==
    IF sd.num <= 0 THEN spread > hundredths * 10
    ELSE LET d == spread \div 10000 IN
         /\ spread > 0
         /\ d * d * sd.den > hundredths * hundredths * sd.num

\* What getTrendContext returns when it cannot analyze (lines 242, 246, 253).
UnknownTrend ==
    [strength |-> "UNKNOWN", direction |-> "NONE", volatility |-> "UNKNOWN",
     isTransitioning |-> FALSE]

\* getTrendContext (lines 240-294) with the default lookbacks 5, 10 and 20.
getTrendContext(history) ==
    IF Len(history) < 20 THEN UnknownTrend
    ELSE
    LET numbers == Numbers(history) IN
    IF Len(numbers) < 20 THEN UnknownTrend
    ELSE
    LET shortMA == calculateEMA(numbers, 5)
        mediumMA == calculateEMA(numbers, 10)
        longMA == calculateEMA(numbers, 20)
        stdDevLong == calculateStdDev(numbers, 20)
        up == shortMA > mediumMA /\ mediumMA > longMA
        down == shortMA < mediumMA /\ mediumMA < longMA
        strength ==
            IF up
            THEN (IF SpreadAbove(shortMA - longMA, stdDevLong, 80) THEN "STRONG"
                  ELSE IF SpreadAbove(shortMA - longMA, stdDevLong, 45) THEN "MODERATE"
                  ELSE "WEAK")
            ELSE IF down
            THEN (IF SpreadAbove(longMA - shortMA, stdDevLong, 80) THEN "STRONG"
                  ELSE IF SpreadAbove(longMA - shortMA, stdDevLong, 45) THEN "MODERATE"
                  ELSE "WEAK")
            ELSE "RANGING"
        direction ==
            IF up THEN "BIG"
            ELSE IF down THEN "SMALL"
            ELSE IF shortMA > longMA THEN "BIG_BIASED_RANGE"
            ELSE IF longMA > shortMA THEN "SMALL_BIASED_RANGE"
            ELSE "NONE"
        volSlice == slice(numbers, 0, Min(Len(numbers), 30)).ret
        stdDevVol == calculateStdDev(volSlice, Len(volSlice))
        volatility ==
            IF Len(volSlice) < 15 \/ stdDevVol.num < 0 THEN "UNKNOWN"
            ELSE IF StdDevAbove(stdDevVol, 330) THEN "HIGH"
            ELSE IF StdDevAbove(stdDevVol, 200) THEN "MEDIUM"
            ELSE IF StdDevAbove(stdDevVol, 90) THEN "LOW"
            ELSE "VERY_LOW"
    IN  [strength |-> strength, direction |-> direction, volatility |-> volatility,
         isTransitioning |-> FALSE]

\* getMarketRegimeAndTrendContext (lines 190-238): the base context with the
\* moving-average crossover test of lines 198-209.  The macro regime label of
\* lines 211-235 is MacroRegime of the returned fields.
getMarketRegimeAndTrendContext(history) ==
    LET baseContext == CHOOSE c \in {getTrendContext(history)} : TRUE
        numbers == Numbers(history)
        prevShortMA == calculateEMA(Tail(numbers), 5)
        prevMediumMA == calculateEMA(Tail(numbers), 10)
        currentShortMA == calculateEMA(numbers, 5)
        currentMediumMA == calculateEMA(numbers, 10)
        isTransitioning ==
            /\ Len(numbers) > 10 + 5
            /\ prevShortMA > 0 /\ prevMediumMA > 0
            /\ currentShortMA > 0 /\ currentMediumMA > 0
            /\ \/ prevShortMA <= prevMediumMA /\ currentShortMA > currentMediumMA
               \/ prevShortMA >= prevMediumMA /\ currentShortMA < currentMediumMA
    IN  [baseContext EXCEPT !.isTransitioning = isTransitioning]

IsConfirmedResult(p) == p.status \in {"Win", "Loss"} /\ p.actual # NULL

Alternations(results) ==
    Cardinality({i \in 1..(Len(results) - 1) : results[i] # results[i + 1]})

\* analyzeTrendStability (lines 1160-1204).
analyzeTrendStability(history) ==
    IF Len(history) < 25
    THEN [isStable |-> TRUE, reason |-> "Not enough data for stability check."]
    ELSE
    LET confirmedHistory == SelectSeq(history, IsConfirmedResult) IN
    IF Len(confirmedHistory) < 20
    THEN [isStable |-> TRUE, reason |-> "Not enough confirmed results."]
    ELSE
    LET recentResults == SelectSeq(Classes(slice(confirmedHistory, 0, 20).ret), IsClass) IN
    IF Len(recentResults) < 18
    THEN [isStable |-> TRUE, reason |-> "Not enough valid B/S for stability."]
    ELSE
    LET entropy == calculateEntropyForSignal(recentResults, Len(recentResults))
        actualNumbersRecent == Numbers(slice(confirmedHistory, 0, 15).ret)
        stdDevNum == calculateStdDev(actualNumbersRecent, Len(actualNumbersRecent))
    IN  IF Count(recentResults, "BIG") * 5 >= Len(recentResults) * 4
           \/ Count(recentResults, "SMALL") * 5 >= Len(recentResults) * 4
        THEN [isStable |-> FALSE, reason |-> "Unstable: Extreme Outcome Dominance"]
        ELSE IF entropy # NoNumber /\ entropy < 4500
        THEN [isStable |-> FALSE,
              reason |-> "Unstable: Very Low Entropy (Highly Predictable/Stuck)"]
        ELSE IF Len(actualNumbersRecent) >= 10 /\ StdDevAbove(stdDevNum, 330)
        THEN [isStable |-> FALSE, reason |-> "Unstable: High Numerical Volatility"]
        ELSE IF Alternations(recentResults) * 4 > Len(recentResults) * 3
        THEN [isStable |-> FALSE, reason |-> "Unstable: Excessive Choppiness"]
        ELSE [isStable |-> TRUE, reason |-> "Trend appears stable."]

\* analyzeMarketEntropyState (lines 1206-1255).  The four slices of the history
\* are taken in the order of the code, each from the array the one before left;
\* history is the array after the call.
analyzeMarketEntropyState(history, trendContext, stability) ==
    IF Len(history) < 25 THEN [state |-> "UNCERTAIN_ENTROPY", history |-> history]
    ELSE
    LET s1 == slice(history, 0, 10)
        s2 == slice(s1.self, 0, 25)
        s3 == slice(s2.self, 0, 10)
        s4 == slice(s3.self, 10, 10 + 10)
        entropyShort == calculateEntropyForSignal(Classes(s1.ret), 10)
        entropyLong == calculateEntropyForSignal(Classes(s2.ret), 25)
        numbersShort == Numbers(s3.ret)
        numbersLongPrev == Numbers(s4.ret)
        none == [num |-> 0 - 1, den |-> 1]
        shortTermVolatility ==
            IF Len(numbersShort) >= 8
            THEN calculateStdDev(numbersShort, Len(numbersShort)) ELSE none
        prevShortTermVolatility ==
            IF Len(numbersLongPrev) >= 8
            THEN calculateStdDev(numbersLongPrev, Len(numbersLongPrev)) ELSE none
        both == Truthy(shortTermVolatility) /\ Truthy(prevShortTermVolatility)
        state ==
            IF entropyShort < 5000 /\ entropyLong < 6000
               /\ shortTermVolatility.num >= 0 /\ StdDevBelow(shortTermVolatility, 150)
            THEN "ORDERLY"
            ELSE IF entropyShort > 9500 /\ entropyLong > 9000
            THEN (IF both /\ StdDevAboveTimes(shortTermVolatility, prevShortTermVolatility, 13)
                          /\ StdDevAbove(shortTermVolatility, 250)
                  THEN "RISING_CHAOS" ELSE "STABLE_CHAOS")
            ELSE IF both /\ StdDevAboveTimes(shortTermVolatility, prevShortTermVolatility, 13)
                         /\ entropyShort > 8500 /\ StdDevAbove(shortTermVolatility, 200)
            THEN "RISING_CHAOS"
            ELSE IF both /\ StdDevBelowTimes(shortTermVolatility, prevShortTermVolatility, 7)
                         /\ entropyLong > 8500 /\ entropyShort < 8000
            THEN "SUBSIDING_CHAOS"
            ELSE "STABLE_MODERATE"
    IN  IF entropyShort = NoNumber \/ entropyLong = NoNumber
        THEN [state |-> "UNCERTAIN_ENTROPY", history |-> s4.self]
        ELSE [state |-> EntropyState(state, stability.isStable), history |-> s4.self]

\* Lines 1950-1954 of ultraAIPredict: the three context analyzers in order on
\* the caller's array.  view is what the cycle reads of their returns, history
\* is the array after the calls.
ClassifyHistory(history) ==
    LET trendContext == CHOOSE c \in {getMarketRegimeAndTrendContext(history)} : TRUE
        stability == CHOOSE s \in {analyzeTrendStability(history)} : TRUE
        marketEntropyAnalysis ==
            CHOOSE e \in {analyzeMarketEntropyState(history, trendContext, stability)} : TRUE
    IN  [view |-> [strength |-> trendContext.strength,
                   direction |-> trendContext.direction,
                   volatility |-> trendContext.volatility,
                   isTransitioning |-> trendContext.isTransitioning,
                   isStable |-> stability.isStable,
                   reason |-> stability.reason,
                   entropy |-> marketEntropyAnalysis.state],
         history |-> marketEntropyAnalysis.history]

----------------------------------------------------------------------------
\* The pattern analyzers on a history of records

\* getOppositeOutcome (lines 13-15)
getOppositeOutcome(prediction) ==
    IF prediction = "BIG" THEN "SMALL" ELSE IF prediction = "SMALL" THEN "BIG" ELSE NULL

\* The loop of lines 322-324: the run of currentStreakType at the head.
RECURSIVE StreakLength(_, _)
StreakLength(actuals, currentStreakType) ==
    IF actuals = << >> \/ Head(actuals) # currentStreakType THEN 0
    ELSE 1 + StreakLength(Tail(actuals), currentStreakType)

\* A weight factor that grows with the streak without a cap.
StreakWeightFactorUncapped(currentStreakLength) == 4500 + currentStreakLength * 1800

\* Line 327: Math.min(0.45 + currentStreakLength * 0.18, 0.95), in 1/10000.
StreakWeightFactor(currentStreakLength) == Min(4500 + currentStreakLength * 1800, 9500)

\* analyzeStreaks (lines 317-331).  An analyzer returns << >> for null and a
\* one-element sequence for a vote; baseWeight is in units of 1/10000 and the
\* vote's weight in units of 1/10^8, so that the product is exact.
analyzeStreaks(history, baseWeight) ==
    IF Len(history) < 3 THEN << >>
    ELSE
    LET actuals == SelectSeq(Classes(history), IsClass) IN
    IF Len(actuals) < 3 THEN << >>
    ELSE
    LET currentStreakLength == StreakLength(actuals, actuals[1]) IN
    IF currentStreakLength >= 2
    THEN <<[prediction |-> getOppositeOutcome(actuals[1]),
            weight |-> baseWeight * StreakWeightFactor(currentStreakLength),
            source |-> "StreakBreak-" \o ToString(currentStreakLength)]>>
    ELSE << >>

\* analyzeAlternatingPatterns (lines 332-341), with the same conventions.
analyzeAlternatingPatterns(history, baseWeight) ==
    IF Len(history) < 5 THEN << >>
    ELSE
    LET actuals == SelectSeq(Classes(slice(history, 0, 5).ret), IsClass) IN
    IF Len(actuals) < 4 THEN << >>
    ELSE IF SubSeq(actuals, 1, 4) = <<"SMALL", "BIG", "SMALL", "BIG">>
    THEN <<[prediction |-> "SMALL", weight |-> baseWeight * 11500, source |-> "Alt-BSBS->S"]>>
    ELSE IF SubSeq(actuals, 1, 4) = <<"BIG", "SMALL", "BIG", "SMALL">>
    THEN <<[prediction |-> "BIG", weight |-> baseWeight * 11500, source |-> "Alt-SBSB->B"]>>
    ELSE << >>

----------------------------------------------------------------------------
\* The inputs of the prediction cycles

\* The most cycles explored.
MaxCycles == 2

\* Histories: [null]; 51 confirmed records; 52 confirmed records; 60 entries
\* of which one is null.
Histories ==
    {[length |-> 1, nulls |-> 1, confirmed |-> 0],
     [length |-> 51, nulls |-> 0, confirmed |-> 51],
     [length |-> 52, nulls |-> 0, confirmed |-> 52],
     [length |-> 60, nulls |-> 1, confirmed |-> 59]}

\* What the context analyzers return for a history too short to analyze
\* (lines 241-243, 1161-1163, 1211).
UnknownView ==
    [strength |-> "UNKNOWN", direction |-> "NONE", volatility |-> "UNKNOWN",
     isTransitioning |-> FALSE, isStable |-> TRUE,
     reason |-> "Not enough data for stability check.", entropy |-> "UNCERTAIN_ENTROPY"]

\* What the context analyzers return for a longer history: a quiet strong
\* trend, a featureless market, a choppy regime change, and a regime change
\* under high volatility with steadily high entropy.
MarketViews ==
    {[strength |-> "STRONG", direction |-> "BIG", volatility |-> "LOW",
      isTransitioning |-> FALSE, isStable |-> TRUE,
      reason |-> "Trend appears stable.", entropy |-> "ORDERLY"],
     [strength |-> "WEAK", direction |-> "NONE", volatility |-> "MEDIUM",
      isTransitioning |-> FALSE, isStable |-> TRUE,
      reason |-> "Trend appears stable.", entropy |-> "STABLE_MODERATE"],
     [strength |-> "RANGING", direction |-> "SMALL_BIASED_RANGE", volatility |-> "HIGH",
      isTransitioning |-> TRUE, isStable |-> FALSE,
      reason |-> "Unstable: Excessive Choppiness", entropy |-> "RISING_CHAOS"],
     [strength |-> "MODERATE", direction |-> "BIG", volatility |-> "HIGH",
      isTransitioning |-> TRUE, isStable |-> TRUE,
      reason |-> "Trend appears stable.", entropy |-> "STABLE_CHAOS"]}

ViewsOf(history) == IF history.length < 20 THEN {UnknownView} ELSE MarketViews

Vote(source, type, prediction, weight) ==
    [source |-> source, type |-> type, prediction |-> prediction, weight |-> weight]

\* What the signal analyzers return (lines 2045-2064), in call order: nothing;
\* one faint vote; five votes for BIG; a split; two equal opposite votes; two
\* votes for BIG.
VoteLists ==
    {<< >>,
     <<Vote("Transition", "pattern", "BIG", 2)>>,
     <<Vote("RSI", "momentum", "BIG", 800), Vote("MACD_CrossB", "trend", "BIG", 900),
       Vote("Ichimoku", "trend", "BIG", 1400), Vote("Stochastic", "momentum", "BIG", 800),
       Vote("ML-GradientBoost", "ml", "BIG", 4000)>>,
     <<Vote("Pattern-BBS->B", "pattern", "BIG", 700), Vote("RSI", "momentum", "SMALL", 800),
       Vote("Bollinger", "meanRev", "SMALL", 700), Vote("Ichimoku", "trend", "BIG", 1400),
       Vote("ZScoreAnomaly", "meanRev", "SMALL", 1200)>>,
     <<Vote("RSI", "momentum", "BIG", 800), Vote("Stochastic", "momentum", "SMALL", 800)>>,
     <<Vote("RSI", "momentum", "BIG", 800), Vote("Ichimoku", "trend", "BIG", 1400)>>}

\* The hour in India: outside and inside a prime-time session.
Hours == {9, 19}

\* The simulated external data: the worst and the best draw.
ExternalData ==
    {[weather |-> "Rain", news |-> "Strongly Negative", marketVol |-> "High"],
     [weather |-> "Clear", news |-> "Strongly Positive", marketVol |-> "Low"]}

\* The draws of Math.random(): the coin of lines 1998, 2079 and 2102 and the
\* jitter of line 2146 in units of 1/10000.
Randoms == {[coin |-> "BIG", jitter |-> 0], [coin |-> "SMALL", jitter |-> 9999]}

\* A cycle that returns or throws before line 2007 uses neither the votes nor
\* the hour's and the external data's factors: one value of each stands for all.
ReachesSignals(history) == history.nulls = 0 /\ history.confirmed >= 52

VotesOf(history) == IF ReachesSignals(history) THEN VoteLists ELSE {<< >>}

HoursOf(history) == IF ReachesSignals(history) THEN Hours ELSE {9}

ExternalOf(history) ==
    IF ReachesSignals(history) THEN ExternalData
    ELSE {[weather |-> "Haze", news |-> "Neutral", marketVol |-> "Normal"]}

CarriedSignalsBefore ==
    <<[source |-> "Ichimoku", prediction |-> "BIG"], [source |-> "RSI", prediction |-> "BIG"]>>

\* The state server.js starts with (server.js lines 19-31).
InitialStats ==
    [longTermGlobalAccuracy |-> Unit \div 2, lastPredictionSignals |-> << >>,
     lastActualOutcome |-> NULL, lastPredictedOutcome |-> NULL,
     lastFinalConfidence |-> NoNumber, lastConfidenceLevel |-> 1,
     lastPeriodFull |-> NoPeriod, lastVolatilityRegime |-> "UNKNOWN",
     lastMacroRegime |-> [regime |-> "UNKNOWN_REGIME", transition |-> FALSE],
     lastConcentrationModeEngaged |-> FALSE, lastMarketEntropyState |-> "STABLE_MODERATE"]

\* Carried states: the initial one; one without a scored outcome; a level-3
\* BIG prediction that missed and one that hit; a forced prediction that hit
\* under a low long-term accuracy.
CarriedStates(lastPeriodFull) ==
    LET level3 == [InitialStats EXCEPT !.lastPredictionSignals = CarriedSignalsBefore,
                                       !.lastPredictedOutcome = "BIG",
                                       !.lastFinalConfidence = 8600,
                                       !.lastConfidenceLevel = 3,
                                       !.lastPeriodFull = lastPeriodFull,
                                       !.lastVolatilityRegime = "LOW"]
    IN  {InitialStats,
         [InitialStats EXCEPT !.lastActualOutcome = UNDEFINED,
                              !.lastMarketEntropyState = UNDEFINED],
         [level3 EXCEPT !.lastActualOutcome = "2"],
         [level3 EXCEPT !.lastActualOutcome = "7"],
         [InitialStats EXCEPT !.longTermGlobalAccuracy = 4000,
                              !.lastActualOutcome = "7",
                              !.lastPredictedOutcome = "BIG",
                              !.lastFinalConfidence = 5000 + 99,
                              !.lastPeriodFull = lastPeriodFull,
                              !.lastConcentrationModeEngaged = TRUE,
                              !.lastMarketEntropyState = "RISING_CHAOS"]}

\* One call of ultraAIPredict (lines 1919-2182) on a history held as
\* [length, nulls, confirmed] (its length, how many of its entries are null, how
\* many pass the filter of line 1995), a carried state and the cycle's
\* environment env = [istHour, weather, news, marketVol, view, votes, coin,
\* jitter, now].  Each step of the function body is bound in the order of the
\* code; what a cycle that throws or returns early has not run is left
\* unchanged.  The caller bounds the number of cycles.
ultraAIPredict(history, stats, env) ==
    /\ \E primeTimeSession \in {getPrimeTimeSession(env.istHour)},
          realTimeFactor \in {getRealTimeExternalData(env.weather, env.news, env.marketVol)},
          reflex \in {checkForAnomalousPerformance(consecutiveHighConfLosses,
                                                   reflexiveCorrectionActive,
                                                   ReflexView(stats))},
          entropy \in {EntropyState(env.view.entropy, env.view.isStable)},
          drift \in {DriftStep(driftDetector, stats)},
          learnt \in {PerformanceUpdate([sp |-> signalPerformance, low |-> lowAccuracy],
                                        stats, env.view.volatility)},
          globalAccuracy \in {GlobalAccuracyAfter(GLOBAL_LONG_TERM_ACCURACY_FOR_LEARNING_RATE,
                                                  stats)} :
       \E profiles \in {RegimeUpdate(REGIME_SIGNAL_PROFILES, globalAccuracy, stats)} :
       \E context \in {[macroRegime |-> MacroRegime(env.view.strength, env.view.volatility,
                                                     env.view.isTransitioning),
                         concentrationModeEngaged |->
                             \/ ~env.view.isStable
                             \/ reflex.ret
                             \/ IncludesChaos(entropy)
                             \/ drift.ret # "STABLE",
                         entropy |-> entropy,
                         volatility |-> env.view.volatility]} :
       \E added \in {AddSignals([sp |-> learnt.sp, low |-> learnt.low, signals |-> << >>],
                                env.votes,
                                CurrentRegimeProfile(profiles, context.macroRegime).activeSignalTypes,
                                RegimeContextualAggression(CurrentRegimeProfile(profiles,
                                                               context.macroRegime),
                                                           primeTimeSession, reflex.ret,
                                                           drift.ret,
                                                           context.concentrationModeEngaged),
                                env.now, env.view.volatility, history.length)} :
       \E consensus \in {analyzePredictionConsensus(added.signals, env.view)} :
       \* line 2070: the superposition weight is not scaled by the regime's aggression
       \E all \in {AddSignals(added,
                              analyzeQuantumSuperpositionState(added.signals, consensus, 2200),
                              AllTypes, Unit, env.now, env.view.volatility,
                              history.length)} :
       \E validSignals \in {SelectSeq(all.signals, IsValidSignal)} :
       \E fusion \in {Fusion(validSignals, env.view, entropy, consensus, env.coin)},
          signalConsistency \in {analyzeSignalConsistency(validSignals)} :
       \E pathConfluence \in {analyzePathConfluenceStrength(validSignals,
                                                            fusion.finalDecision)} :
       \E uncertainty \in {calculateUncertaintyScore(env.view, env.view, entropy,
                                                     signalConsistency, pathConfluence,
                                                     stats.longTermGlobalAccuracy,
                                                     reflex.ret, drift.ret)} :
          /\ consecutiveHighConfLosses' = reflex.losses
          /\ reflexiveCorrectionActive' = reflex.active
          /\ runLen' = IF reflex.ret THEN runLen + 1 ELSE 0
          /\ doneLen' = IF ~reflex.ret /\ runLen > 0 THEN runLen ELSE doneLen
          /\ clock' = env.now
          /\ cycles' = cycles + 1
          /\ prevCall' = call
          /\ UNCHANGED stream
          /\ GLOBAL_LONG_TERM_ACCURACY_FOR_LEARNING_RATE' = globalAccuracy
          /\ scoredPeriods' =
                 IF history.nulls > 0 \/ stats.lastActualOutcome \in {NULL, UNDEFINED}
                 THEN scoredPeriods
                 ELSE ScoredAfter(scoredPeriods, stats.lastPredictionSignals,
                                  getBigSmallFromNumber(stats.lastActualOutcome),
                                  stats.lastPeriodFull)
          /\ IF history.nulls > 0
             THEN \* lines 196, 244: entry.actualNumber of a null entry
                  /\ result' = [kind |-> "thrown", error |-> "TypeError"]
                  /\ call' = [op |-> "ultraAIPredict", history |-> history,
                              driftState |-> "STABLE", validSignals |-> 0,
                              uncertainty |-> NoNumber, pool |-> {},
                              defaults |-> cycles = 0 /\ stats = InitialStats,
                              stats |-> stats]
                  /\ UNCHANGED <<driftDetector, signalPerformance, lowAccuracy,
                                 REGIME_SIGNAL_PROFILES>>
             ELSE /\ driftDetector' = drift.dd
                  /\ REGIME_SIGNAL_PROFILES' = profiles
                  /\ call' = [op |-> "ultraAIPredict", history |-> history,
                              driftState |-> drift.ret,
                              validSignals |-> IF history.confirmed < 52 THEN 0
                                               ELSE Len(validSignals),
                              uncertainty |-> IF history.confirmed < 52
                                                 \/ validSignals = << >>
                                              THEN NoNumber ELSE uncertainty,
                              pool |-> IF history.confirmed < 52 THEN {}
                                       ELSE {all.signals[i].source :
                                                 i \in DOMAIN all.signals},
                              defaults |-> cycles = 0 /\ stats = InitialStats,
                              stats |-> stats,
                              bigScore |-> fusion.bigScore,
                              smallScore |-> fusion.smallScore,
                              \* the random draw, kept where the scores tie
                              coin |-> IF fusion.bigScore = fusion.smallScore
                                       THEN env.coin ELSE NULL]
                  /\ IF history.confirmed < 52
                     THEN /\ result' = ForcedRandom("InsufficientHistory",
                                                    "InsufficientHistory_ForceRandom",
                                                    env.coin, context.macroRegime,
                                                    context.concentrationModeEngaged,
                                                    entropy, reflex.ret,
                                                    env.view.volatility)
                          /\ signalPerformance' = learnt.sp
                          /\ lowAccuracy' = learnt.low
                     ELSE /\ signalPerformance' = all.sp
                          /\ lowAccuracy' = all.low
                          /\ result' =
                                 IF validSignals = << >>
                                 THEN ForcedRandom("NoValidSignals",
                                                   "NoValidSignals_ForceRandom", env.coin,
                                                   context.macroRegime,
                                                   context.concentrationModeEngaged,
                                                   entropy, reflex.ret, env.view.volatility)
                                 ELSE Ensemble(validSignals, fusion, signalConsistency,
                                               pathConfluence, uncertainty,
                                               primeTimeSession, realTimeFactor, reflex.ret,
                                               drift.ret, context, env.jitter)

Cycle ==
    /\ cycles < MaxCycles
    /\ UNCHANGED <<sharedHistory, outcomes, freeCalls, serverVars>>
    /\ \E history \in Histories, stats \in CarriedStates(clock), random \in Randoms :
        \E view \in ViewsOf(history), votes \in VotesOf(history),
           istHour \in HoursOf(history), external \in ExternalOf(history) :
            /\ ultraAIPredict(history, stats,
                       [istHour |-> istHour, weather |-> external.weather,
                        news |-> external.news, marketVol |-> external.marketVol,
                        view |-> view, votes |-> votes, coin |-> random.coin,
                        jitter |-> random.jitter, now |-> clock + 1])

\* Cycles that score a carried prediction: the history is too short for a new
\* ensemble decision, so the cycle ends at line 1996 after the learners ran.
MaxScored == 2

\* An empty history, one confirmed record, ten confirmed records.
SuppliedHistories ==
    {[length |-> 0, nulls |-> 0, confirmed |-> 0],
     [length |-> 1, nulls |-> 0, confirmed |-> 1],
     [length |-> 10, nulls |-> 0, confirmed |-> 10]}

\* The votes behind the carried prediction: one for each class.
ScoredSignals ==
    <<[source |-> "Ichimoku", prediction |-> "BIG"],
      [source |-> "Stochastic", prediction |-> "SMALL"]>>

\* Carried states of a caller that knows the outcome: the decision was BIG or
\* SMALL, taken at confidence 0.86 (level 3) or 0.60 (level 1), in or out of
\* concentration mode, and the outcome is a 2 or a 7.
ScoredStates(lastPeriodFull) ==
    {[InitialStats EXCEPT !.lastPredictionSignals = ScoredSignals,
                          !.lastActualOutcome = actual,
                          !.lastPredictedOutcome = predicted,
                          !.lastFinalConfidence = confidence,
                          !.lastConfidenceLevel = IF confidence > 7800 THEN 3 ELSE 1,
                          !.lastPeriodFull = lastPeriodFull,
                          !.lastVolatilityRegime = "LOW",
                          !.lastConcentrationModeEngaged = concentration] :
        actual \in {"2", "7"}, predicted \in Outcomes, confidence \in {6000, 8600},
        concentration \in BOOLEAN}

ScoreCycle ==
    /\ cycles < MaxScored
    /\ UNCHANGED <<sharedHistory, outcomes, freeCalls, serverVars>>
    /\ \E history \in SuppliedHistories, stats \in ScoredStates(clock) :
          ultraAIPredict(history, stats,
                         [istHour |-> 9, weather |-> "Haze", news |-> "Neutral",
                          marketVol |-> "Normal", view |-> UnknownView, votes |-> << >>,
                          coin |-> "BIG", jitter |-> 0, now |-> clock + 1])

\* Cycles that feed the regime learner: a caller that stays in one macro
\* regime and reports, cycle after cycle, whether its BIG prediction hit.
MaxRegimeCycles == 50

\* The labels getMarketRegimeAndTrendContext can produce (lines 211-233).
RegimeLabels ==
    {[regime |-> name, transition |-> transition] :
        name \in ProfileNames \ {"DEFAULT"}, transition \in BOOLEAN}

\* Carried states of such a caller: the regime, a long-term accuracy of 0.5 or
\* 1.0, and the outcome of the period the BIG prediction was made for.
RegimeStates(lastPeriodFull) ==
    {[InitialStats EXCEPT !.lastActualOutcome = actual,
                          !.lastPredictedOutcome = "BIG",
                          !.lastFinalConfidence = 6000,
                          !.lastPeriodFull = lastPeriodFull,
                          !.lastMacroRegime = label,
                          !.longTermGlobalAccuracy = accuracy] :
        actual \in {"2", "7"}, label \in RegimeLabels, accuracy \in {Unit \div 2, Unit}}

\* The outcomes form one run of one class followed by a run of the other.
RegimeCycle ==
    /\ cycles < MaxRegimeCycles
    /\ UNCHANGED <<sharedHistory, freeCalls, serverVars>>
    /\ \E stats \in RegimeStates(clock) :
          \E outcome \in {getBigSmallFromNumber(stats.lastActualOutcome)} :
          /\ cycles > 0 => /\ stats.lastMacroRegime = call.stats.lastMacroRegime
                           /\ stats.longTermGlobalAccuracy
                                  = call.stats.longTermGlobalAccuracy
          /\ outcomes.last \in {NULL, outcome} \/ ~outcomes.changed
          /\ outcomes' = [last |-> outcome,
                          changed |-> outcomes.changed
                                        \/ outcomes.last \notin {NULL, outcome}]
          /\ ultraAIPredict([length |-> 10, nulls |-> 0, confirmed |-> 10], stats,
                            [istHour |-> 9, weather |-> "Haze", news |-> "Neutral",
                             marketVol |-> "Normal", view |-> UnknownView,
                             votes |-> << >>, coin |-> "BIG", jitter |-> 0,
                             now |-> clock + 1])

\* The fusion of a cycle's votes (lines 2066-2103) as a function of the
\* signals added so far: consensus, the superposition vote, the valid signals
\* and the fused decision, in the order of ultraAIPredict.
FuseSignals(acc, view, entropy, coin, currentPeriodFull, historyLength) ==
    LET consensus == analyzePredictionConsensus(acc.signals, view)
        all == AddSignals(acc, analyzeQuantumSuperpositionState(acc.signals, consensus, 2200),
                          AllTypes, Unit, currentPeriodFull, view.volatility, historyLength)
        validSignals == SelectSeq(all.signals, IsValidSignal)
    IN  [sp |-> all.sp, low |-> all.low, consensus |-> consensus,
         validSignals |-> Len(validSignals),
         fusion |-> Fusion(validSignals, view, entropy, consensus, coin)]

\* The votes of lines 2045-2064 added to an empty list and fused.
FuseVotes(sp, low, votes, view, coin, currentPeriodFull) ==
    FuseSignals(AddSignals([sp |-> sp, low |-> low, signals |-> << >>], votes, AllTypes,
                           Unit, currentPeriodFull, view.volatility, 60),
                view, EntropyState(view.entropy, view.isStable), coin, currentPeriodFull, 60)

\* Six analyzers of five categories, with their base weights.
FusionSources ==
    <<[source |-> "Ichimoku", type |-> "trend", weight |-> 1400],
      [source |-> "RSI", type |-> "momentum", weight |-> 800],
      [source |-> "Bollinger", type |-> "meanRev", weight |-> 700],
      [source |-> "QuantumTunneling", type |-> "volatility", weight |-> 550],
      [source |-> "ZScoreAnomaly", type |-> "meanRev", weight |-> 1200],
      [source |-> "StateSpaceMomentum", type |-> "trend", weight |-> 1100]>>

\* The votes of the first 2, 4 or 6 of them, for every choice of classes.
FusionVotes ==
    UNION {{[i \in 1..n |-> Vote(FusionSources[i].source, FusionSources[i].type,
                                  classes[i], FusionSources[i].weight)] :
               classes \in [1..n -> Outcomes]} : n \in {2, 4, 6}}

\* Views under which analyzeAdvancedMarketRegime returns bullTrend = bearTrend.
NeutralViews ==
    {view \in MarketViews :
        LET probabilities ==
                analyzeAdvancedMarketRegime(view, EntropyState(view.entropy, view.isStable))
        IN  probabilities.bullTrend = probabilities.bearTrend}

\* The number of fusions in a run.
MaxFuse == 1

\* One fusion of a list of votes on the module's state.
Fuse ==
    /\ freeCalls < MaxFuse
    /\ \E votes \in FusionVotes, view \in NeutralViews, coin \in Outcomes :
          \E fused \in {FuseVotes(signalPerformance, lowAccuracy, votes, view, coin,
                                  clock + 1)} :
             /\ signalPerformance' = fused.sp
             /\ lowAccuracy' = fused.low
             /\ clock' = clock + 1
             /\ freeCalls' = freeCalls + 1
             /\ prevCall' = call
             /\ call' = [op |-> "Fusion", votes |-> votes, view |-> view, coin |-> coin,
                         consensus |-> fused.consensus,
                         validSignals |-> fused.validSignals, ret |-> fused.fusion]
    /\ UNCHANGED <<reflexVars, driftVars, cycleVars, regimeVars, serverVars, outcomes, scoredPeriods>>

\* The /predict handler of the server that fetches the real history
\* (unnamed/part_000, lines 235-286).

\* The newest period the results API publishes in a run, and the requests served.
MaxPeriod == 4
MaxRequests == 4

\* The results API publishes the next period's number.
Draw ==
    /\ api.period < MaxPeriod
    /\ \E actual \in {"2", "7"} : api' = [period |-> api.period + 1, actual |-> actual]
    /\ UNCHANGED <<reflexVars, driftVars, perfVars, cycleVars, regimeVars, sharedStats,
                   call, prevCall>>

\* fetchRealHistoryFromAPI (lines 176-232): the ten newest records (pageSize
\* 10), or no record when the request fails.
RealHistories ==
    {[length |-> 0, nulls |-> 0, confirmed |-> 0],
     [length |-> 10, nulls |-> 0, confirmed |-> 10]}

\* Lines 259-270: the state carried to the next request.
SharedStatsAfter(stats, predictionResult, nextPeriodId) ==
    [stats EXCEPT !.lastPredictedOutcome = predictionResult.finalDecision,
                  !.lastFinalConfidence = predictionResult.finalConfidence,
                  !.lastConfidenceLevel = predictionResult.confidenceLevel,
                  !.lastMacroRegime = predictionResult.lastMacroRegime,
                  !.lastPredictionSignals = predictionResult.lastPredictionSignals,
                  !.lastConcentrationModeEngaged =
                      predictionResult.lastConcentrationModeEngaged,
                  !.lastMarketEntropyState = predictionResult.lastMarketEntropyState,
                  !.lastVolatilityRegime = predictionResult.lastVolatilityRegime,
                  !.lastPeriodFull = nextPeriodId]

\* One request: fetch, take the newest record's number as the outcome of the
\* carried prediction, predict, and carry the prediction for period newest + 1.
Predict ==
    /\ cycles < MaxRequests
    /\ UNCHANGED <<api, sharedHistory, outcomes, freeCalls>>
    /\ \E realHistory \in RealHistories, coin \in Outcomes :
          IF realHistory.length = 0
          THEN \* line 241: the handler throws and answers 500
               /\ call' = [op |-> "predict", status |-> 500]
               /\ prevCall' = call
               /\ UNCHANGED <<reflexVars, driftVars, signalPerformance, clock, lowAccuracy,
                              scoredPeriods, result, cycles, regimeVars, sharedStats>>
          ELSE \E stats \in {IF realHistory.length > 1
                              THEN [sharedStats EXCEPT !.lastActualOutcome = api.actual]
                              ELSE sharedStats} :
               /\ ultraAIPredict(realHistory, stats,
                                 [istHour |-> 9, weather |-> "Haze", news |-> "Neutral",
                                  marketVol |-> "Normal", view |-> UnknownView,
                                  votes |-> << >>, coin |-> coin, jitter |-> 0,
                                  now |-> clock + 1])
               /\ sharedStats' = SharedStatsAfter(stats, result', api.period + 1)

----------------------------------------------------------------------------
\* Calls on the server's history array

\* pattern repeated to n entries, newest first.
Cyclic(pattern, n) == [i \in 1..n |-> pattern[((i - 1) % Len(pattern)) + 1]]

Records(actuals, status) == [i \in 1..Len(actuals) |-> HistoryRecord(actuals[i], status)]

\* 60 strictly alternating records, BIG newest, whose digits vary.
VariedAlternation ==
    <<"5", "1", "9", "1", "8", "3", "9", "4", "9", "2", "5", "1", "9", "1", "9",
      "1", "6", "0", "8", "1", "7", "1", "6", "4", "7", "1", "7", "1", "9", "0",
      "6", "2", "9", "4", "9", "2", "6", "1", "7", "4", "5", "2", "8", "4", "8",
      "2", "5", "0", "5", "1", "5", "3", "5", "1", "7", "0", "6", "1", "9", "0">>

\* Histories of 60 records: all 7; 9 and 0 in turn; 5 and 4 in turn; 9 and 0
\* in turn without a status; the varied alternation; two 7 and a 2 in turn.
LongHistories ==
    {Records(Cyclic(<<"7">>, 60), "Win"),
     Records(Cyclic(<<"9", "0">>, 60), "Win"),
     Records(Cyclic(<<"5", "4">>, 60), "Win"),
     Records(Cyclic(<<"9", "0">>, 60), UNDEFINED),
     Records(VariedAlternation, "Win"),
     Records(Cyclic(<<"7", "7", "2">>, 60), "Loss")}

\* Histories of 2 to 4 records of 2 and 7, and two with an entry that does
\* not parse.
ShortHistories ==
    {Records(a, "Win") : a \in UNION {[1..n -> {"2", "7"}] : n \in 2..4}}
        \cup {Records(<<"7", "7", "x">>, "Win"), Records(<<"x", "7", "7", "7">>, "Win")}

SharedHistories == LongHistories \cup ShortHistories

\* The baseWeight of line 2046 and another one.
BaseWeights == {450, 1000}

\* The history as ultraAIPredict sees it: no entry is null and every record
\* passes the filter of line 1995.
HistoryShape(records) == [length |-> Len(records), nulls |-> 0, confirmed |-> Len(records)]

\* An analyzer's return as addSignal takes it; the weight in units of 1/10000.
AsVotes(ret, type) ==
    IF ret = << >> THEN << >>
    ELSE <<Vote(ret[1].source, type, ret[1].prediction, ret[1].weight \div Unit)>>

\* Lines 2046-2047: the streak and the alternation analyzers on the confirmed
\* history.
PatternVotes(confirmedHistory) ==
    AsVotes(analyzeStreaks(confirmedHistory, 450), "meanRev")
        \o AsVotes(analyzeAlternatingPatterns(confirmedHistory, 600), "pattern")

\* What the analyzers of lines 2048-2064 return.
LaterVoteLists == {v \in VoteLists : \A i \in DOMAIN v : v[i].type # "pattern"}

\* The most cycles explored on the server's history.
MaxShared == 1

\* The caller supplies the history, once.
LoadHistory ==
    \E h \in SharedHistories :
        /\ sharedHistory = << >>
        /\ sharedHistory' = h
        /\ call' = [op |-> "load"]
        /\ prevCall' = call
        /\ UNCHANGED <<reflexVars, driftVars, perfVars, result, cycles, regimeVars, serverVars>>

\* The context classifiers called on the history, as lines 1950-1957 call them.
Classify ==
    \E c \in {ClassifyHistory(sharedHistory)} :
        /\ call' = [op |-> "classify", history |-> sharedHistory, context |-> c.view,
                    advancedRegime |-> analyzeAdvancedMarketRegime(c.view, c.view.entropy)]
        /\ sharedHistory' = c.history
        /\ prevCall' = call
        /\ UNCHANGED <<reflexVars, driftVars, perfVars, result, cycles, regimeVars, serverVars>>

\* analyzeStreaks called on the history.
AnalyzeStreaks ==
    \E baseWeight \in BaseWeights :
        /\ call' = [op |-> "analyzeStreaks", history |-> sharedHistory,
                    baseWeight |-> baseWeight,
                    ret |-> analyzeStreaks(sharedHistory, baseWeight)]
        /\ prevCall' = call
        /\ UNCHANGED <<reflexVars, driftVars, perfVars, cycleVars, regimeVars, serverVars>>

\* server.js line 45: ultraAIPredict(sharedHistory, sharedStats).  The context
\* and the pattern votes are computed from the records; what the other
\* analyzers return is an input.
PredictShared ==
    /\ cycles < MaxShared
    /\ UNCHANGED <<outcomes, freeCalls, serverVars>>
    /\ \E stats \in CarriedStates(clock), random \in Randoms,
          istHour \in HoursOf(HistoryShape(sharedHistory)),
          c \in {ClassifyHistory(sharedHistory)} :
        \E later \in (IF ReachesSignals(HistoryShape(sharedHistory))
                      THEN LaterVoteLists ELSE {<< >>}) :
            /\ ultraAIPredict(HistoryShape(sharedHistory), stats,
                       [istHour |-> istHour, weather |-> "Haze", news |-> "Neutral",
                        marketVol |-> "Normal", view |-> c.view,
                        votes |-> PatternVotes(sharedHistory) \o later,
                        coin |-> random.coin, jitter |-> random.jitter, now |-> clock + 1])
            /\ sharedHistory' = c.history

----------------------------------------------------------------------------
\* Specifications

\* The state after the module is loaded (lines 1293, 1308, 1811, 1812).
Init ==
    /\ consecutiveHighConfLosses = 0
    /\ reflexiveCorrectionActive = 0
    /\ driftDetector = InitialDriftDetector
    /\ call = NoCall
    /\ prevCall = NoCall
    /\ runLen = 0
    /\ doneLen = 0
    /\ stream = << >>
    /\ signalPerformance = [s \in {} |-> NewRecord]
    /\ clock = 0
    /\ outcomes = [last |-> NULL, changed |-> FALSE]
    /\ freeCalls = 0
    /\ lowAccuracy = {}
    /\ scoredPeriods = {}
    /\ result = [kind |-> "none"]
    /\ cycles = 0
    /\ sharedHistory = << >>
    /\ REGIME_SIGNAL_PROFILES = InitialProfiles
    /\ GLOBAL_LONG_TERM_ACCURACY_FOR_LEARNING_RATE = Unit \div 2
    /\ sharedStats = InitialStats
    /\ api = [period |-> 1, actual |-> "7"]

\* The drift detector fed a stream of correctness bits.
NextDrift == \E isCorrect \in BOOLEAN : FeedDrift(isCorrect)

SpecDrift == Init /\ [][NextDrift]_vars

\* The reflexive-correction counters over a sequence of cycles.
NextReflex == ReflexCycle

SpecReflex == Init /\ [][NextReflex]_vars

\* The performance learner: a learning run, then calls with any arguments.
NextPerf ==
    \/ \E outcome \in Outcomes : Learn(outcome)
    \/ FreeUpdate
    \/ FreeRead

SpecPerf == Init /\ [][NextPerf]_vars

\* The learner's run on source A, then reads of A after a long inactivity.
NextDecay ==
    \/ \E outcome \in Outcomes : Learn(outcome)
    \/ DecayRead

SpecDecay == Init /\ [][NextDecay]_vars

\* Prediction cycles over free histories, carried states and environments.
NextCycle == Cycle

SpecCycle == Init /\ [][NextCycle]_vars

\* Cycles that score a carried prediction on a history too short to predict from.
NextScore == ScoreCycle

SpecScore == Init /\ [][NextScore]_vars

\* A caller in one macro regime feeding the regime learner.
NextRegime == RegimeCycle

SpecRegime == Init /\ [][NextRegime]_vars

\* The fusion of lines 2066-2103 applied to lists of votes.
NextFusion == Fuse

SpecFusion == Init /\ [][NextFusion]_vars

\* Requests to the server while the results API publishes new periods.
NextServer == Draw \/ Predict

SpecServer == Init /\ [][NextServer]_vars

\* The server's history array under the calls made on it.
NextHistory ==
    \/ LoadHistory
    \/ Classify
    \/ AnalyzeStreaks
    \/ PredictShared

SpecHistory == Init /\ [][NextHistory]_vars

----------------------------------------------------------------------------
\* Claims about the drift detector (checked under SpecDrift)

Alternating(str) ==
    \A i \in 1..(Len(str) - 1) : str[i].isCorrect # str[i + 1].isCorrect

AllStable(str, k) == \A i \in 1..k : str[i].ret = "STABLE"

\* C4 (as claimed): from the initial detector state, every call of a strictly
\* alternating stream of correctness bits returns STABLE, whichever bit comes first.
C4_AlternatingStaysStable ==
    Alternating(stream) => AllStable(stream, Len(stream))

\* The number of consecutive incorrect bits taken as a sustained run.
SurgeLen == 8

\* stream is a non-empty run of calls that all returned STABLE, followed by
\* at least SurgeLen incorrect bits.
SurgeAfterStableRun(k) ==
    /\ k >= 1
    /\ Len(stream) - k >= SurgeLen
    /\ AllStable(stream, k)
    /\ \A i \in (k + 1)..Len(stream) : ~stream[i].isCorrect

\* C5 (as claimed): after a run of calls that returned STABLE, a sustained run of
\* incorrect bits makes detectConceptDrift return DRIFT.
C5_SurgeReachesDrift ==
    \A k \in 1..Len(stream) :
        SurgeAfterStableRun(k) =>
            \E i \in (k + 1)..Len(stream) : stream[i].ret = "DRIFT"

\* C5 (amended): every call that returns DRIFT leaves the detector hard-reset to
\* p_min = Infinity, s_min = Infinity, n = 1; and after a run of correct bits only,
\* the first incorrect bit returns DRIFT.
C5_DriftResetsDetector ==
    /\ call.op = "detectConceptDrift" /\ call.ret = "DRIFT" =>
          /\ driftDetector.p_min = Infinity
          /\ driftDetector.s_min = Infinity
          /\ driftDetector.n = 1
    /\ ( /\ Len(stream) >= 2
         /\ \A i \in 1..(Len(stream) - 1) : stream[i].isCorrect
         /\ ~stream[Len(stream)].isCorrect )
       => stream[Len(stream)].ret = "DRIFT"

\* C5 witness: a run of STABLE calls, one of them incorrect, is followed by a
\* run of incorrect bits the last of which returns DRIFT and resets the detector.
C5_Witness ==
    /\ stream # << >>
    /\ stream[Len(stream)].ret = "DRIFT"
    /\ driftDetector.n = 1
    /\ \E k \in 1..(Len(stream) - 2) :
          /\ AllStable(stream, k)
          /\ \E i \in 1..k : ~stream[i].isCorrect
          /\ \A i \in (k + 1)..Len(stream) : ~stream[i].isCorrect

\* The index of the last call of stream that returned DRIFT, 0 when none did.
LastDrift ==
    LET drifts == {i \in DOMAIN stream : stream[i].ret = "DRIFT"} IN
    IF drifts = {} THEN 0 ELSE CHOOSE i \in drifts : \A j \in drifts : j <= i

\* The detector after the calls from + 1 .. to of stream, started in dd.
RECURSIVE DetectorAfter(_, _, _)
DetectorAfter(dd, from, to) ==
    IF from >= to THEN dd
    ELSE DetectorAfter(detectConceptDrift(dd, stream[from + 1].isCorrect).dd, from + 1, to)

\* Error rates a detector can hold when it is reset: 0, 1/2 and 1.
CarriedRates == {<<0, 1>>, <<1, 2>>, <<1, 1>>}

\* C28: after detectConceptDrift returned DRIFT and reset, the running error
\* rate p_i of later calls depends only on the correctness bits fed after the
\* reset: whichever error rate the detector held at the reset, the calls
\* made since give the same p_i.
C28_ResetForgetsErrorRate ==
    (LastDrift > 0 /\ LastDrift < Len(stream))
        => \A rate \in CarriedRates :
               DetectorAfter([ResetDetector(InitialDriftDetector) EXCEPT !.p_i = rate],
                             LastDrift, Len(stream)).p_i = driftDetector.p_i

\* What the code does: the error rate held at the reset counts as the first
\* sample of the new estimate, p_i = (held + errors since) / (calls since + 1).
C28_ResetKeepsErrorRateAsSample ==
    (LastDrift > 0 /\ LastDrift < Len(stream))
        => LET held == DetectorAfter(InitialDriftDetector, 0, LastDrift).p_i
               since == Len(stream) - LastDrift
               errors == Cardinality({i \in (LastDrift + 1)..Len(stream) :
                                         ~stream[i].isCorrect})
           IN  driftDetector.p_i[1] * (since + 1) * held[2]
                   = (held[1] + errors * held[2]) * driftDetector.p_i[2]

----------------------------------------------------------------------------
\* Claims about reflexive correction (checked under SpecReflex)

IsCheck(c) == c.op = "checkForAnomalousPerformance"

HighConfMiss(stats) ==
    HasOutcome(stats) /\ lastPredWasHighConf(stats) /\ ~lastPredWasCorrect(stats)

HighConfHit(stats) ==
    HasOutcome(stats) /\ lastPredWasHighConf(stats) /\ lastPredWasCorrect(stats)

\* The latest call armed the countdown.
Activated == IsCheck(call) /\ call.activeBefore = 0 /\ reflexiveCorrectionActive = Arm

\* Activation happens exactly on the second of two counted confidence-level-3 misses.
ActivationRule ==
    IsCheck(call) /\ call.activeBefore = 0 =>
        (Activated <=> (HighConfMiss(call.stats) /\ call.lossesBefore = 1))

\* C6 (as claimed): two consecutive confidence-level-3 misses activate reflexive
\* correction, and the run of cycles for which checkForAnomalousPerformance
\* returns true then lasts exactly 5 cycles.
C6_WindowIsFiveCycles ==
    /\ ActivationRule
    /\ doneLen \in {0, 5}

\* C6 (amended): two consecutive confidence-level-3 misses activate reflexive
\* correction, and checkForAnomalousPerformance then returns true for exactly 6
\* consecutive cycles: the activating cycle and the five cycles of the countdown.
C6_WindowIsSixCycles ==
    /\ ActivationRule
    /\ doneLen \in {0, 6}
    /\ runLen <= 6

\* C6 witness: a window has been activated by two misses and has run to its end.
C6_Witness ==
    /\ doneLen > 0
    /\ IsCheck(call) /\ ~call.ret /\ call.activeBefore = 0
    /\ IsCheck(prevCall) /\ prevCall.ret

\* C7: with no countdown active, a cycle whose previous prediction was a correct
\* confidence-level-3 prediction resets consecutiveHighConfLosses to 0, and a
\* level-3 miss in the cycle right after it does not activate reflexive correction.
C7_HitResetsCounter ==
    /\ ( IsCheck(call) /\ call.activeBefore = 0 /\ HighConfHit(call.stats) ) =>
          ( consecutiveHighConfLosses = 0 /\ reflexiveCorrectionActive = 0 /\ ~call.ret )
    /\ ( IsCheck(call) /\ IsCheck(prevCall)
         /\ prevCall.activeBefore = 0 /\ HighConfHit(prevCall.stats) ) =>
          ~Activated

\* C7 witness: a level-3 miss, then a correct level-3 prediction, then a level-3 miss.
C7_Witness ==
    /\ IsCheck(call) /\ IsCheck(prevCall)
    /\ prevCall.activeBefore = 0 /\ prevCall.lossesBefore = 1
    /\ HighConfHit(prevCall.stats)
    /\ HighConfMiss(call.stats)
    /\ consecutiveHighConfLosses = 1

\* C8: while the countdown is active, every cycle decrements it by exactly one
\* whatever the previous prediction's outcome, never re-arms it and leaves
\* consecutiveHighConfLosses unchanged.
C8_CountdownOnlyDecrements ==
    ( IsCheck(call) /\ call.activeBefore > 0 ) =>
        /\ reflexiveCorrectionActive = call.activeBefore - 1
        /\ consecutiveHighConfLosses = call.lossesBefore
        /\ call.ret

\* C8 witness: a cycle that carries a level-3 miss runs while the countdown is active.
C8_Witness ==
    /\ IsCheck(call) /\ call.activeBefore > 1
    /\ HighConfMiss(call.stats)
    /\ IsCheck(prevCall) /\ prevCall.activeBefore > 0 /\ HighConfMiss(prevCall.stats)

----------------------------------------------------------------------------
\* Claims about the performance learner

IsRead(c) == c.op = "getDynamicWeightAdjustment"

IsPerfCall(c) == c.op \in {"getDynamicWeightAdjustment", "updateSignalPerformance"}

\* The read came no more than INACTIVITY_PERIOD_FOR_DECAY periods after the
\* source was last scored.
ReadWhileActive(c) ==
    c.currentPeriodFull - c.lastActiveBefore <= INACTIVITY_PERIOD_FOR_DECAY

\* C9 as stated: once updateSignalPerformance has computed an accuracy below
\* 0.40 on a window of at least 15 for a source, the next weight
\* getDynamicWeightAdjustment returns for it is at most 0.10 * baseWeight, for
\* every baseWeight and every current period.
C9_ProbationCapsNextWeight ==
    IsRead(call) /\ call.wasLow => call.ret <= call.baseWeight * PROBATION_WEIGHT_CAP

\* C9 amended: the next weight is at most the larger of 0.10 * baseWeight and
\* MIN_ABSOLUTE_WEIGHT, provided the read's period is no more than 90 after the
\* period in which the source was last scored.
C9_ProbationCapsUnlessInactiveOrFloored ==
    IsRead(call) /\ call.wasLow /\ ReadWhileActive(call)
        => call.ret <= Max(call.baseWeight * PROBATION_WEIGHT_CAP, MIN_ABSOLUTE_WEIGHT * Unit)

\* A read exactly 90 periods after a low accuracy was computed, whose weight the
\* cap (and not the floor) decides.
C9_Witness ==
    /\ IsRead(call) /\ call.wasLow
    /\ call.currentPeriodFull - call.lastActiveBefore = INACTIVITY_PERIOD_FOR_DECAY
    /\ call.ret = call.baseWeight * PROBATION_WEIGHT_CAP
    /\ call.ret > MIN_ABSOLUTE_WEIGHT * Unit

RecordWellFormed(r) ==
    /\ r.correct <= r.total
    /\ \A l \in DOMAIN r.performanceByVolatility :
          r.performanceByVolatility[l].correct <= r.performanceByVolatility[l].total
    /\ r.sessionCorrect <= r.sessionTotal
    /\ r.currentAdjustmentFactor >= MIN_WEIGHT_FACTOR
    /\ r.currentAdjustmentFactor <= MAX_WEIGHT_FACTOR
    /\ r.alphaFactor >= MIN_ALPHA_FACTOR
    /\ r.alphaFactor <= MAX_ALPHA_FACTOR
    /\ r.longTermImportanceScore >= 0
    /\ r.longTermImportanceScore <= Unit
    /\ \A i \in 1..Len(r.recentAccuracy) : r.recentAccuracy[i] \in {0, 1}
    /\ Len(r.recentAccuracy) <= PERFORMANCE_WINDOW

\* C10: after any sequence of updateSignalPerformance and
\* getDynamicWeightAdjustment calls every record has correct <= total in the
\* totals, in every volatility bucket and in the session counters, its three
\* factors within their ranges, a recent-accuracy window of at most 30 entries
\* that are 0 or 1, and no record that existed before a call is missing after it.
C10_RecordsStayWellFormed ==
    /\ \A s \in DOMAIN signalPerformance : RecordWellFormed(signalPerformance[s])
    /\ IsPerfCall(call) => call.sourcesBefore \subseteq DOMAIN signalPerformance

\* A record scored more than 30 times, so that its window has dropped entries,
\* with its adjustment factor, alpha factor and importance score all at their
\* lower limits, read after a second record was created.
C10_Witness ==
    /\ IsRead(call)
    /\ DOMAIN signalPerformance = Sources
    /\ \E s \in DOMAIN signalPerformance :
          LET r == signalPerformance[s] IN
          /\ r.total > PERFORMANCE_WINDOW
          /\ Len(r.recentAccuracy) = PERFORMANCE_WINDOW
          /\ r.currentAdjustmentFactor = MIN_WEIGHT_FACTOR
          /\ r.alphaFactor = MIN_ALPHA_FACTOR
          /\ r.longTermImportanceScore = 0

\* The distinct period ids updateSignalPerformance was called with for a source.
PeriodsOf(source) == {q[2] : q \in {p \in scoredPeriods : p[1] = source}}

RECURSIVE BucketTotals(_, _)
BucketTotals(buckets, labels) ==
    IF labels = {} THEN 0
    ELSE LET l == CHOOSE x \in labels : TRUE IN
         buckets[l].total + BucketTotals(buckets, labels \ {l})

\* C11: over any sequence of updateSignalPerformance calls, repeated calls and
\* calls whose period ids interleave (A, B, A) included, each contributing
\* source's total, correct, per-volatility-bucket counters and recentAccuracy
\* window are updated exactly once per distinct period id.
C11_ScoredOncePerPeriod ==
    \A s \in DOMAIN signalPerformance :
        LET r == signalPerformance[s]
            n == Cardinality(PeriodsOf(s)) IN
        /\ r.total = n
        /\ r.correct <= n
        /\ BucketTotals(r.performanceByVolatility, DOMAIN r.performanceByVolatility) = n
        /\ Len(r.recentAccuracy) = Min(n, PERFORMANCE_WINDOW)

IsUpdate(c) == c.op = "updateSignalPerformance"

\* clamp(1 + (accuracy - 0.5) * 3.5, 0.05, 1.95) for accuracy = hits / len,
\* in units of 1/10000.
ClampedFactor(hits, len) ==
    Min(Max(Unit + ((35 * (2 * hits - len) * Unit) \div (20 * len)), 500), 19500)

\* hits1 / len1 <= hits2 / len2
AccuracyAtMost(hits1, len1, hits2, len2) == hits1 * len2 <= hits2 * len1

\* The record of source s before and after a step (a source first seen in the
\* step starts from the new record of line 1383).
RecordBefore(s) ==
    IF s \in DOMAIN signalPerformance THEN signalPerformance[s] ELSE NewRecord

\* C20: in every call of updateSignalPerformance a source's
\* currentAdjustmentFactor changes only if afterwards its total is >= 10 and
\* its recent window holds >= 15 samples; whenever the source is scored under
\* that condition the factor is clamp(1 + (accuracy - 0.5) * 3.5, 0.05, 1.95)
\* of the window's accuracy, and it is non-decreasing in accuracy: no window
\* of the same length, of 15 or of 30 samples with a lower accuracy (in
\* particular none below 0.5 when this one is above) gives a larger factor,
\* and none with a higher accuracy gives a smaller one.
C20_FactorGatedAndMonotone ==
    [][IsUpdate(call') =>
        \A s \in DOMAIN signalPerformance' :
            LET r0 == RecordBefore(s)
                r1 == signalPerformance'[s]
                len == Len(r1.recentAccuracy)
                hits == Sum(r1.recentAccuracy)
                gate == r1.total >= 10 /\ len >= 15 IN
            /\ r1.currentAdjustmentFactor # r0.currentAdjustmentFactor => gate
            /\ (r1.total > r0.total /\ gate) =>
                  /\ r1.currentAdjustmentFactor = ClampedFactor(hits, len)
                  /\ \A l \in {PERFORMANCE_WINDOW \div 2, len, PERFORMANCE_WINDOW} : \A h \in 0..l :
                        /\ AccuracyAtMost(h, l, hits, len)
                             => NewAdjustmentFactor(h, l) <= r1.currentAdjustmentFactor
                        /\ AccuracyAtMost(hits, len, h, l)
                             => NewAdjustmentFactor(h, l) >= r1.currentAdjustmentFactor
      ]_vars

\* Source A was scored 17 times or more: over its first 15 results its
\* accuracy was below 0.5, over all of them it is above 0.5, and the factor
\* just recomputed is above 1.0.
C20_Witness ==
    /\ IsUpdate(call)
    /\ "A" \in DOMAIN signalPerformance
    /\ LET r == signalPerformance["A"]
           len == Len(r.recentAccuracy) IN
       /\ len >= 17 /\ r.total = len
       /\ 2 * Sum(SubSeq(r.recentAccuracy, 1, 15)) < 15
       /\ 2 * Sum(r.recentAccuracy) > len
       /\ r.currentAdjustmentFactor > Unit
       /\ r.currentAdjustmentFactor = ClampedFactor(Sum(r.recentAccuracy), len)

\* The recent accuracy of record r is below 0.40, above 0.55.
AccuracyBelowEntry(r) ==
    Sum(r.recentAccuracy) * 100 < 40 * Len(r.recentAccuracy)

AccuracyAboveExit(r) ==
    Sum(r.recentAccuracy) * 100 > 55 * Len(r.recentAccuracy)

\* What every step does to the probation flag of source s, whatever lifts it:
\* it is raised only on a window of at least 15 samples with accuracy below
\* 0.40, and an update that scores the source on such a window raises it; an
\* update that leaves the accuracy within [0.40, 0.55] keeps the flag.
ProbationEntryAndBand(s) ==
    LET r0 == RecordBefore(s)
        r1 == signalPerformance'[s] IN
    /\ (~r0.isOnProbation /\ r1.isOnProbation)
          => Len(r1.recentAccuracy) >= 15 /\ AccuracyBelowEntry(r1)
    /\ (IsUpdate(call') /\ r1.total > r0.total
           /\ Len(r1.recentAccuracy) >= 15 /\ AccuracyBelowEntry(r1))
          => r1.isOnProbation
    /\ (IsUpdate(call') /\ ~AccuracyBelowEntry(r1) /\ ~AccuracyAboveExit(r1))
          => r1.isOnProbation = r0.isOnProbation

\* C22: a source enters probation when its recent accuracy over at least 15
\* samples falls below 0.40 and leaves it only when its recent accuracy is
\* above 0.55; updates that keep the accuracy within [0.40, 0.55] leave
\* isOnProbation as it was.
C22_ProbationLeftOnlyAboveExit ==
    [][\A s \in DOMAIN signalPerformance' :
          /\ ProbationEntryAndBand(s)
          /\ (RecordBefore(s).isOnProbation /\ ~signalPerformance'[s].isOnProbation)
                => AccuracyAboveExit(signalPerformance'[s])
      ]_vars

\* C22 amended: the flag is also cleared, whatever the accuracy, by a read of
\* the source that comes more than INACTIVITY_PERIOD_FOR_DECAY periods after
\* it was last scored; it is cleared in no other way.
C22_ProbationLeftAboveExitOrInactive ==
    [][\A s \in DOMAIN signalPerformance' :
          /\ ProbationEntryAndBand(s)
          /\ (RecordBefore(s).isOnProbation /\ ~signalPerformance'[s].isOnProbation)
                => \/ IsUpdate(call') /\ AccuracyAboveExit(signalPerformance'[s])
                   \/ /\ IsRead(call') /\ call'.source = s
                      /\ call'.currentPeriodFull - call'.lastActiveBefore
                             > INACTIVITY_PERIOD_FOR_DECAY
      ]_vars

\* Source A has just been scored, its accuracy over 15 samples or more is back
\* within [0.40, 0.55], and it is still on probation.
C22_Witness ==
    /\ IsUpdate(call)
    /\ "A" \in DOMAIN signalPerformance
    /\ LET r == signalPerformance["A"] IN
       /\ Len(r.recentAccuracy) >= 15
       /\ ~AccuracyBelowEntry(r) /\ ~AccuracyAboveExit(r)
       /\ r.lastActivePeriod = clock
       /\ r.isOnProbation

\* Claims about reads after inactivity (checked under SpecDecay)

\* One step of 0.025 toward 1.0 that stops at 1.0.
StepTowardOne(factor) ==
    IF factor > Unit THEN Max(Unit, factor - 250)
    ELSE IF factor < Unit THEN Min(Unit, factor + 250)
    ELSE factor

\* c is a read of a source that has been scored before.
IsReadOfScored(c) == IsRead(c) /\ c.lastActiveBefore # NoPeriod

InactiveFor(c) == c.currentPeriodFull - c.lastActiveBefore

\* The read c decayed the source; it left factor and probation flag alone.
Decayed(c, r1) ==
    /\ r1.currentAdjustmentFactor = StepTowardOne(c.factorBefore)
    /\ ~r1.isOnProbation

NotDecayed(c, r1) ==
    /\ r1.currentAdjustmentFactor = c.factorBefore
    /\ r1.isOnProbation = c.probationBefore

\* The current period of the read c2 was already the current period of c1, an
\* earlier read of the same source that found it inactive for 90 periods or more.
SamePeriodRead(c1, c2) ==
    /\ IsReadOfScored(c1) /\ c1.source = c2.source
    /\ c1.currentPeriodFull = c2.currentPeriodFull

\* C24: a read of a source that has been inactive for at least 90 periods
\* moves its currentAdjustmentFactor by one step of 0.025 toward 1.0 without
\* crossing it and clears its probation flag; the step is applied at most
\* once per distinct current period (not again when one of the two reads
\* before had the same current period); a source active fewer than 90
\* periods ago is not decayed.
C24_DecayAfterNinetyPeriods ==
    [][IsReadOfScored(call') =>
         LET r1 == signalPerformance'[call'.source]
             again == SamePeriodRead(call, call')
                        \/ (IsRead(call) /\ SamePeriodRead(prevCall, call')) IN
         IF InactiveFor(call') >= 90 /\ ~again
         THEN Decayed(call', r1) ELSE NotDecayed(call', r1)
      ]_vars

\* C24 amended: the decay needs more than 90 periods of inactivity, and it is
\* skipped only when the read's current period equals the record's
\* lastUpdatePeriod, that is the period of the latest read or update of the
\* source.
C24_DecayAfterMoreThanNinetyPeriods ==
    [][IsReadOfScored(call') =>
         LET r0 == signalPerformance[call'.source]
             r1 == signalPerformance'[call'.source] IN
         IF InactiveFor(call') > 90 /\ r0.lastUpdatePeriod # call'.currentPeriodFull
         THEN Decayed(call', r1) ELSE NotDecayed(call', r1)
      ]_vars

\* The read of exactly 90 periods of inactivity aside, the original statement
\* still fails: of three reads at periods P, P', P the third decays again.
C24_DecayOncePerPeriodAfterMoreThanNinety ==
    [][IsReadOfScored(call') =>
         LET r1 == signalPerformance'[call'.source]
             again == SamePeriodRead(call, call')
                        \/ (IsRead(call) /\ SamePeriodRead(prevCall, call')) IN
         IF InactiveFor(call') > 90 /\ ~again
         THEN Decayed(call', r1) ELSE NotDecayed(call', r1)
      ]_vars

\* A source on probation with a factor below 1.0 was read 91 periods after it
\* was last scored: the factor went up by 0.025 and the probation flag is off.
C24_Witness ==
    /\ IsReadOfScored(call)
    /\ InactiveFor(call) = 91
    /\ call.probationBefore
    /\ call.factorBefore < Unit - 250
    /\ signalPerformance[call.source].currentAdjustmentFactor = call.factorBefore + 250
    /\ ~signalPerformance[call.source].isOnProbation

----------------------------------------------------------------------------
\* The prediction cycle (SpecCycle)

IsCycle(c) == c.op = "ultraAIPredict"

Returned == result.kind = "returned"

\* C1: a call of ultraAIPredict whose history has fewer than 52 confirmed
\* records returns a result with isForcedPrediction = true, confidenceLevel = 1
\* and finalConfidence within [0.49, 0.51], whatever the carried state and the
\* learning state.
C1_ShortHistoryIsForced ==
    (IsCycle(call) /\ call.history.confirmed < 52) =>
        /\ Returned
        /\ result.isForcedPrediction
        /\ result.confidenceLevel = 1
        /\ result.finalConfidence >= 4900
        /\ result.finalConfidence <= 5100

\* C2: the finalConfidence ultraAIPredict returns lies in [0, 1], for every
\* history, carried state, prime-time session and external-data factor.
C2_FinalConfidenceInUnitInterval ==
    Returned => result.finalConfidence >= 0 /\ result.finalConfidence <= Unit

\* C3: in every result of ultraAIPredict the two display confidences,
\* predictions.BIG.confidence and predictions.SMALL.confidence, are each within
\* [0.001, 0.999] and sum to 1, on the forced paths and on the ensemble path,
\* for every value of finalConfidence.
C3_DisplayConfidencesSumToOne ==
    Returned =>
        /\ result.BIG >= 10 /\ result.BIG <= 9990
        /\ result.SMALL >= 10 /\ result.SMALL <= 9990
        /\ result.BIG + result.SMALL = Unit

\* An ensemble result whose finalConfidence is above 0.999, so that both
\* display confidences are clamped values.
C3_Witness ==
    /\ IsCycle(call)
    /\ Returned
    /\ result.source = "RealTimeFusionV42"
    /\ ~result.isForcedPrediction
    /\ result.finalConfidence > 9990
    /\ result.BIG = 9990
    /\ result.SMALL = 10

\* C12: ultraAIPredict never throws: for every history array, one with a null
\* or otherwise malformed record among 20 or more entries included, and for
\* every carried state, it returns a result.
C12_NeverThrows == IsCycle(call) => Returned

\* C13: when the history has at least 52 confirmed records but no analyzer
\* yields a vote with a class and an adjustedWeight above MIN_ABSOLUTE_WEIGHT,
\* ultraAIPredict returns isForcedPrediction = true, confidenceLevel = 1,
\* finalConfidence = 0.5, an empty lastPredictionSignals list and an
\* overallLogic trail containing NoValidSignals_ForceRandom.
C13_NoValidSignalsIsForced ==
    (IsCycle(call) /\ call.history.confirmed >= 52 /\ call.validSignals = 0) =>
        /\ Returned
        /\ result.isForcedPrediction
        /\ result.confidenceLevel = 1
        /\ result.finalConfidence = Unit \div 2
        /\ result.lastPredictionSignals = << >>
        /\ "NoValidSignals_ForceRandom" \in result.overallLogic

\* The same for the cycles that reach the signal filter of line 2074.
C13_NoValidSignalsIsForcedUnlessThrown ==
    (IsCycle(call) /\ call.history.confirmed >= 52 /\ call.validSignals = 0
        /\ call.history.nulls = 0) =>
        /\ Returned
        /\ result.isForcedPrediction
        /\ result.confidenceLevel = 1
        /\ result.finalConfidence = Unit \div 2
        /\ result.lastPredictionSignals = << >>
        /\ "NoValidSignals_ForceRandom" \in result.overallLogic

\* A cycle that reached the ensemble decision (line 2088).
Decided == IsCycle(call) /\ call.history.confirmed >= 52 /\ call.validSignals > 0

\* Line 2142, in hundredths of a point.
UncertaintyThreshold ==
    IF result.reflexiveCorrectionActive \/ call.driftState = "DRIFT" THEN 6500 ELSE 9500

ForcedShape ==
    /\ result.isForcedPrediction
    /\ result.confidenceLevel = 1
    /\ result.finalConfidence >= 4900
    /\ result.finalConfidence <= 5100

\* C14: in a cycle with at least 52 confirmed records and at least one valid
\* vote the result is forced (isForcedPrediction = true, confidenceLevel = 1,
\* finalConfidence within [0.49, 0.51]) exactly when the uncertainty score
\* exceeds the threshold (65 under reflexive correction or DRIFT, else 95) or
\* the prediction-quality score is below 0.20; a score equal to the threshold
\* does not force.
C14_ForcedIffAboveThreshold ==
    Decided =>
        /\ Returned
        /\ result.isForcedPrediction <=>
               (call.uncertainty > UncertaintyThreshold
                    \/ result.predictionQualityScore < 2000)
        /\ result.isForcedPrediction => ForcedShape

\* The same with the comparison of line 2143: a score equal to the threshold
\* forces.
C14_ForcedIffAtLeastThreshold ==
    Decided =>
        /\ Returned
        /\ result.isForcedPrediction <=>
               (call.uncertainty >= UncertaintyThreshold
                    \/ result.predictionQualityScore < 2000)
        /\ result.isForcedPrediction => ForcedShape

\* A decided cycle whose uncertainty score equals the threshold of 95, with a
\* quality score of 0.20 or more, and whose result is forced.
C14_Witness ==
    /\ Decided
    /\ Returned
    /\ call.uncertainty = UncertaintyThreshold
    /\ result.predictionQualityScore >= 2000
    /\ ForcedShape


\* C19 as stated: the final decision is the class with the larger final score,
\* and when the two scores are equal it is the random draw, so that either
\* class can come out of a tie.
C19_TieIsRandom ==
    Decided =>
        /\ call.bigScore > call.smallScore => result.finalDecision = "BIG"
        /\ call.smallScore > call.bigScore => result.finalDecision = "SMALL"
        /\ call.bigScore = call.smallScore => result.finalDecision = call.coin

\* C19: in a cycle with a valid vote the two final scores are not both 0; the
\* final decision is the class with the larger final score, and BIG when the
\* two scores are equal, whatever the random draw.
C19_TieIsBig ==
    Decided =>
        /\ call.bigScore + call.smallScore > 0
        /\ result.finalDecision = IF call.bigScore >= call.smallScore THEN "BIG" ELSE "SMALL"

\* A tie decided for BIG against a random draw of SMALL.
C19_Witness ==
    /\ Decided
    /\ Returned
    /\ call.bigScore = call.smallScore
    /\ call.coin = "SMALL"
    /\ result.finalDecision = "BIG"

\* C27: in a cycle with at least 52 confirmed records and at least one valid
\* vote, if reflexive correction is active or the drift state is DRIFT, the
\* result is forced: isForcedPrediction = true and confidenceLevel = 1.
C27_CorrectionOrDriftForces ==
    ( /\ IsCycle(call) /\ Returned
      /\ call.history.confirmed >= 52 /\ call.validSignals >= 1
      /\ (result.reflexiveCorrectionActive \/ call.driftState = "DRIFT") )
    => result.isForcedPrediction /\ result.confidenceLevel = 1

\* A cycle on the ensemble path whose drift state is DRIFT, without
\* reflexive correction, and with no other source of uncertainty above 25
\* points: the 70 points of the drift alone pass the threshold of 65.
C27_Witness ==
    /\ IsCycle(call) /\ Returned
    /\ call.history.confirmed >= 52 /\ call.validSignals >= 1
    /\ call.driftState = "DRIFT" /\ ~result.reflexiveCorrectionActive
    /\ call.uncertainty < 9500
    /\ result.isForcedPrediction /\ result.confidenceLevel = 1

\* The same under reflexive correction, without drift.
C27_WitnessCorrection ==
    /\ IsCycle(call) /\ Returned
    /\ call.history.confirmed >= 52 /\ call.validSignals >= 1
    /\ call.driftState # "DRIFT" /\ result.reflexiveCorrectionActive
    /\ result.isForcedPrediction /\ result.confidenceLevel = 1

\* Claims about the scoring of a carried prediction (checked under SpecScore)

\* The cycle of call c scored the carried prediction's votes.
ScoredCycle(c) ==
    IsCycle(c) /\ c.stats.lastActualOutcome \notin {NULL, UNDEFINED}

\* The change of a vote's longTermImportanceScore: base, times 1.5 when
\* concentration mode or a chaos entropy state was carried.
ScoreAfter(score, base, stats) ==
    LET amplified == stats.lastConcentrationModeEngaged
                       \/ IncludesChaos(stats.lastMarketEntropyState)
        delta == IF amplified THEN (base * 3) \div 2 ELSE base IN
    Min(Unit, Max(0, score + delta))

\* In the step to the next state every vote of the carried prediction that
\* missed the outcome and was counted had its score changed by penalty(stats).
MissedVotesPenalised(penalty(_)) ==
    LET stats == call'.stats
        actual == getBigSmallFromNumber(stats.lastActualOutcome) IN
    \A i \in DOMAIN stats.lastPredictionSignals :
        LET vote == stats.lastPredictionSignals[i]
            r0 == RecordBefore(vote.source)
            r1 == signalPerformance'[vote.source] IN
        (vote.prediction # actual /\ r1.total = r0.total + 1)
            => r1.longTermImportanceScore
                   = ScoreAfter(r0.longTermImportanceScore, penalty(stats), stats)

\* -0.040 when the prediction was high-confidence and the ensemble's decision
\* missed the outcome, -0.015 otherwise.
PenaltyByEnsembleOutcome(stats) ==
    IF stats.lastFinalConfidence > 7500
       /\ stats.lastPredictedOutcome # getBigSmallFromNumber(stats.lastActualOutcome)
    THEN 0 - 400 ELSE 0 - 150

\* -0.040 whenever the prediction was high-confidence.
PenaltyByConfidence(stats) ==
    IF stats.lastFinalConfidence > 7500 THEN 0 - 400 ELSE 0 - 150

\* C21: an incorrect vote receives the larger negative delta (-0.040 before
\* the amplification) only when the previous prediction was high-confidence
\* and the overall ensemble decision also missed; when the ensemble decision
\* was correct it receives the smaller delta (-0.015).
C21_LargerPenaltyOnlyWhenEnsembleMissed ==
    [][ScoredCycle(call') => MissedVotesPenalised(PenaltyByEnsembleOutcome)]_vars

\* What the code does: the larger delta follows the confidence alone.
C21_LargerPenaltyWheneverHighConfidence ==
    [][ScoredCycle(call') => MissedVotesPenalised(PenaltyByConfidence)]_vars

\* C23: whenever a cycle is run with a supplied history of length <= 1, the
\* session counters of the signal sources are reset to 0.
C23_ShortHistoryResetsSession ==
    (IsCycle(call) /\ Returned /\ call.history.length <= 1)
        => \A s \in DOMAIN signalPerformance :
               /\ signalPerformance[s].sessionTotal = 0
               /\ signalPerformance[s].sessionCorrect = 0

\* What the code does: a cycle on a history of length <= 1 returns at line
\* 1996 before any source is read, so no session counter goes down.
C23_ShortHistoryKeepsSession ==
    [][(IsCycle(call') /\ call'.history.length <= 1)
         => \A s \in DOMAIN signalPerformance :
                /\ s \in DOMAIN signalPerformance'
                /\ signalPerformance'[s].sessionTotal >= signalPerformance[s].sessionTotal
                /\ signalPerformance'[s].sessionCorrect
                       >= signalPerformance[s].sessionCorrect]_vars

----------------------------------------------------------------------------
\* Claims about the regime learner (checked under SpecRegime)

\* The carried state of call c holds the previous cycle's outcome and class.
OutcomeKnown(c) ==
    /\ IsCycle(c)
    /\ c.stats.lastActualOutcome \notin {NULL, UNDEFINED}
    /\ c.stats.lastPredictedOutcome # NULL

\* The correctness bit of the carried state.
CorrectnessBit(stats) ==
    IF getBigSmallFromNumber(stats.lastActualOutcome) = stats.lastPredictedOutcome
    THEN 1 ELSE 0

\* The window w after bit was pushed into it.
PushedWindow(w, bit) ==
    IF Len(w) = REGIME_ACCURACY_WINDOW THEN Append(Tail(w), bit) ELSE Append(w, bit)

\* In the step to the next state one bit was pushed into the profile name.
PushedInto(name, bit) ==
    LET p0 == REGIME_SIGNAL_PROFILES[name]
        p1 == REGIME_SIGNAL_PROFILES'[name] IN
    /\ p1.totalPredictions = p0.totalPredictions + 1
    /\ p1.correctPredictions = p0.correctPredictions + bit
    /\ p1.recentAccuracy = PushedWindow(p0.recentAccuracy, bit)

\* The step to the next state left the counters and window of name alone.
NotPushedInto(name) ==
    LET p0 == REGIME_SIGNAL_PROFILES[name]
        p1 == REGIME_SIGNAL_PROFILES'[name] IN
    /\ p1.totalPredictions = p0.totalPredictions
    /\ p1.correctPredictions = p0.correctPredictions
    /\ p1.recentAccuracy = p0.recentAccuracy

\* The profile a carried label stands for: the label without its suffix.
ProfileOf(label) == label.regime

\* C25: in every cycle where the previous cycle's outcome and predicted class
\* are known, exactly one correctness bit is pushed into the profile of the
\* macro regime carried as lastMacroRegime, for every label the context
\* classifier can produce, those with the _TRANSITION suffix included.
C25_OneBitForEveryLabel ==
    [][OutcomeKnown(call')
         => LET stats == call'.stats IN
            /\ PushedInto(ProfileOf(stats.lastMacroRegime), CorrectnessBit(stats))
            /\ \A name \in ProfileNames \ {ProfileOf(stats.lastMacroRegime)} :
                   NotPushedInto(name)]_vars

\* What the code does: a label that is a key of REGIME_SIGNAL_PROFILES gets
\* its bit; under a label with the _TRANSITION suffix no profile is touched.
C25_OneBitForKeyedLabelsOnly ==
    [][OutcomeKnown(call')
         => LET stats == call'.stats IN
            IF HasProfile(stats.lastMacroRegime)
            THEN /\ PushedInto(ProfileOf(stats.lastMacroRegime), CorrectnessBit(stats))
                 /\ \A name \in ProfileNames \ {ProfileOf(stats.lastMacroRegime)} :
                        NotPushedInto(name)
            ELSE UNCHANGED REGIME_SIGNAL_PROFILES]_vars

\* The ranges and counters of one profile.
ProfileInRange(profile) ==
    /\ profile.baseWeightMultiplier >= 2 * (Nano \div 10)
    /\ profile.baseWeightMultiplier <= 19 * (Nano \div 10)
    /\ profile.contextualAggression >= 3 * (Nano \div 10)
    /\ profile.contextualAggression <= 18 * (Nano \div 10)
    /\ Len(profile.recentAccuracy) <= REGIME_ACCURACY_WINDOW
    /\ profile.correctPredictions <= profile.totalPredictions

\* In the step to the next state the multipliers of name changed only in a
\* learner call for name whose window holds at least 25 samples of accuracy
\* above 0.62 or below 0.38, and its activeSignalTypes did not change.
MultipliersLearntOnly(name) ==
    LET p0 == REGIME_SIGNAL_PROFILES[name]
        p1 == REGIME_SIGNAL_PROFILES'[name]
        len == Len(p1.recentAccuracy)
        hits == Sum(p1.recentAccuracy) IN
    /\ p1.activeSignalTypes = p0.activeSignalTypes
    /\ (p1.baseWeightMultiplier # p0.baseWeightMultiplier
          \/ p1.contextualAggression # p0.contextualAggression)
         => /\ OutcomeKnown(call')
            /\ call'.stats.lastMacroRegime = [regime |-> name, transition |-> FALSE]
            /\ p1.totalPredictions = p0.totalPredictions + 1
            /\ len >= 25
            /\ hits * 100 > 62 * len \/ hits * 100 < 38 * len

\* C26: after any sequence of cycles every regime profile has
\* baseWeightMultiplier in [0.20, 1.9], contextualAggression in [0.30, 1.8],
\* at most 35 entries in recentAccuracy and correctPredictions <=
\* totalPredictions; the multipliers change only inside
\* updateRegimeProfilePerformance, only once the window holds at least 25
\* samples, and only when the regime's accuracy is above 0.62 or below 0.38;
\* activeSignalTypes never changes.
C26_ProfilesBoundedAndLearntOnly ==
    /\ [](\A name \in ProfileNames : ProfileInRange(REGIME_SIGNAL_PROFILES[name]))
    /\ [][\A name \in ProfileNames : MultipliersLearntOnly(name)]_vars

\* A profile whose full window let both multipliers reach their upper ends.
C26_Witness ==
    \E name \in ProfileNames :
        /\ Len(REGIME_SIGNAL_PROFILES[name].recentAccuracy) = REGIME_ACCURACY_WINDOW
        /\ REGIME_SIGNAL_PROFILES[name].baseWeightMultiplier = 19 * (Nano \div 10)
        /\ REGIME_SIGNAL_PROFILES[name].contextualAggression = 18 * (Nano \div 10)

\* A profile whose full window let both multipliers reach their lower ends.
C26_WitnessLow ==
    \E name \in ProfileNames :
        /\ Len(REGIME_SIGNAL_PROFILES[name].recentAccuracy) = REGIME_ACCURACY_WINDOW
        /\ REGIME_SIGNAL_PROFILES[name].baseWeightMultiplier = 2 * (Nano \div 10)
        /\ REGIME_SIGNAL_PROFILES[name].contextualAggression = 3 * (Nano \div 10)

\* A profile whose window of at least 25 samples lies in the band between
\* 0.38 and 0.62 and whose multipliers had moved before.
C26_WitnessBand ==
    \E name \in ProfileNames :
        LET profile == REGIME_SIGNAL_PROFILES[name]
            len == Len(profile.recentAccuracy)
            hits == Sum(profile.recentAccuracy) IN
        /\ len >= 25
        /\ hits * 100 <= 62 * len
        /\ hits * 100 >= 38 * len
        /\ profile.baseWeightMultiplier # InitialProfiles[name].baseWeightMultiplier

----------------------------------------------------------------------------
\* Claims about the fusion of votes (checked under SpecFusion)

Opposite(class) == IF class = "BIG" THEN "SMALL" ELSE "BIG"

\* The votes with every class swapped.
Swapped(votes) ==
    [i \in DOMAIN votes |-> [votes[i] EXCEPT !.prediction = Opposite(@)]]

\* The step to the next state fused votes whose swapped list, fused on the
\* same module state, gives the opposite decision at the same confidence.
SwapMirrors ==
    LET other == FuseVotes(signalPerformance, lowAccuracy, Swapped(call'.votes),
                           call'.view, call'.coin, clock + 1).fusion IN
    /\ other.finalDecision = Opposite(call'.ret.finalDecision)
    /\ other.finalConfidence = call'.ret.finalConfidence

\* C29: fusion is symmetric in the two classes: with neutral advanced-regime
\* probabilities (bullTrend = bearTrend), two vote sets that are identical
\* except that every vote's class is swapped yield opposite final decisions
\* and the same finalConfidence before jitter.
C29_FusionSymmetric ==
    [][call'.op = "Fusion" => SwapMirrors]_vars

\* What the code does: the swap mirrors the result when the consensus factor
\* is 1.0 and the two class scores differ.
C29_FusionSymmetricWithoutConsensus ==
    [][(/\ call'.op = "Fusion"
        /\ call'.consensus.factor = Unit
        /\ call'.ret.bigScore # call'.ret.smallScore) => SwapMirrors]_vars

----------------------------------------------------------------------------
\* Claims about the server's requests (checked under SpecServer)

\* The step to the next state is a request that reached ultraAIPredict.
ServedRequest == cycles' = cycles + 1

\* It scored a carried prediction.
ScoringRequest == ServedRequest /\ sharedStats.lastPredictedOutcome # NULL

\* C30: in the server's /predict handler, over any sequence of requests
\* (several requests while the newest fetched period is unchanged included),
\* the lastActualOutcome used to score the carried prediction is the outcome
\* of the period that prediction was made for: the newest fetched period is
\* the period the carried state names, never an earlier one.
C30_ScoredAgainstOwnPeriod ==
    [][ScoringRequest
         => /\ call'.stats.lastActualOutcome = api.actual
            /\ api.period = sharedStats.lastPeriodFull]_vars

\* What the code does: every request scores the carried prediction against
\* the newest fetched record and carries its own for the period after it.
C30_ScoredAgainstNewestFetched ==
    [][ServedRequest
         => /\ call'.stats.lastActualOutcome = api.actual
            /\ sharedStats'.lastPeriodFull = api.period + 1
            /\ (ScoringRequest => driftDetector' # driftDetector)]_vars

\* Two requests in a row, no period published in between, and the second
\* scored the first one's prediction.
C30_RepeatedRequestScores ==
    /\ IsCycle(call) /\ IsCycle(prevCall)
    /\ call.stats.lastPredictedOutcome # NULL
    /\ sharedStats.lastPeriodFull = call.stats.lastPeriodFull

----------------------------------------------------------------------------
\* Claims about calls on the server's history (checked under SpecHistory)

IsClassify(c) == c.op = "classify"

IsStreakCall(c) == c.op = "analyzeStreaks"

\* The classes of the records that have one, newest first.
ParsedClasses(history) == SelectSeq(Classes(history), IsClass)

\* The number of newest classes equal to the newest one.
NewestRun(classes) ==
    CHOOSE n \in 1..Len(classes) :
        /\ \A i \in 1..n : classes[i] = classes[1]
        /\ n = Len(classes) \/ classes[n + 1] # classes[1]

\* The vote the claim describes for a streak of 2 or more, nothing for a
\* streak of 1.
StreakVote(classes, baseWeight) ==
    LET L == NewestRun(classes)
        factor == IF 4500 + 1800 * L < 9500 THEN 4500 + 1800 * L ELSE 9500
    IN  IF L >= 2
        THEN <<[prediction |-> IF classes[1] = "BIG" THEN "SMALL" ELSE "BIG",
                weight |-> baseWeight * factor,
                source |-> "StreakBreak-" \o ToString(L)]>>
        ELSE << >>

\* C16 as stated: for every history whose newest records form a streak of
\* L >= 2 identical classes analyzeStreaks returns a vote for the opposite
\* class with source StreakBreak-L and weight baseWeight * min(0.45 + 0.18 * L,
\* 0.95), and for a streak of 1 it returns nothing.
C16_StreakVoteForEveryHistory ==
    (IsStreakCall(call) /\ ParsedClasses(call.history) # << >>) =>
        call.ret = StreakVote(ParsedClasses(call.history), call.baseWeight)

\* C16: for every history of at least 3 records of which at least 3 have a
\* class, analyzeStreaks returns for a newest streak of L >= 2 a vote for the
\* opposite class with source StreakBreak-L and weight
\* baseWeight * min(0.45 + 0.18 * L, 0.95), and nothing for a streak of 1; 60
\* records all equal to 7 yield a SMALL vote with weight 0.95 * baseWeight.
C16_StreakVoteFromThreeRecords ==
    IsStreakCall(call) =>
        /\ Len(ParsedClasses(call.history)) >= 3 =>
               call.ret = StreakVote(ParsedClasses(call.history), call.baseWeight)
        /\ call.history = Records(Cyclic(<<"7">>, 60), "Win") =>
               call.ret = <<[prediction |-> "SMALL", weight |-> call.baseWeight * 9500,
                             source |-> "StreakBreak-60"]>>

\* analyzeStreaks has returned the capped SMALL vote for 60 records equal to 7.
C16_Witness ==
    /\ IsStreakCall(call)
    /\ Len(call.history) = 60
    /\ \A i \in 1..60 : call.history[i].actual = "7"
    /\ call.ret # << >>
    /\ call.ret[1].prediction = "SMALL"
    /\ call.ret[1].weight = call.baseWeight * 9500

\* 60 records whose classes alternate, the newest being BIG.
StrictlyAlternating(history) ==
    /\ Len(history) = 60
    /\ \A i \in 1..60 :
           getBigSmallFromNumber(history[i].actual) = IF i % 2 = 1 THEN "BIG" ELSE "SMALL"

\* The sources of the votes analyzeAlternatingPatterns returns.
AltSources == {"Alt-BSBS->S", "Alt-SBSB->B"}

\* C17: for a history of 60 strictly alternating BIG/SMALL records (newest
\* first) with all learning state at its defaults, a vote whose source starts
\* with Alt- is in the cycle's vote pool, whichever macro regime the history
\* is assigned.
C17_AlternationVotes ==
    (IsCycle(call) /\ call.defaults /\ StrictlyAlternating(sharedHistory)) =>
        /\ Returned
        /\ call.pool \cap AltSources # {}

\* The same for the alternations the classifier finds in a regime change.
C17_AlternationVotesInTransition ==
    (/\ IsCycle(call) /\ call.defaults /\ StrictlyAlternating(sharedHistory)
     /\ ClassifyHistory(sharedHistory).view.isTransitioning) =>
        /\ Returned
        /\ call.pool \cap AltSources # {}

\* C18: for a history of 60 strictly alternating BIG/SMALL records (newest
\* first) with all other state at its defaults, ultraAIPredict does not take
\* the forced/random path: the result has isForcedPrediction = false.
C18_AlternationIsNotForced ==
    (IsCycle(call) /\ call.defaults /\ StrictlyAlternating(sharedHistory)) =>
        /\ Returned
        /\ ~result.isForcedPrediction

\* What the cycle does with the alternating histories whose records have a
\* status: it is forced every time.
C18_AlternationWithStatusIsForced ==
    (/\ IsCycle(call) /\ call.defaults /\ StrictlyAlternating(sharedHistory)
     /\ \A i \in 1..60 : sharedHistory[i].status = "Win") =>
        /\ Returned
        /\ result.isForcedPrediction

====
